---- MODULE Spec2Model ----
(***************************************************************************)
(* FundFinder: the multi-strategy backtest of one index,                   *)
(* modules/backtester.py backtest_single_index; the batch loops over the   *)
(* filtered indices (daily.py, src/s05_calculate_index.py,                 *)
(* src/s20_backtest.py); filter_consecutive_missing_data                   *)
(* (modules/data_processor.py, daily.py); calculate_valuation_percentiles  *)
(* and calculate_technical_indicators (modules/data_processor.py);         *)
(* export_home_data (modules/data_exporter.py) and export_home (daily.py,  *)
(* src/s91_export_home.py); retry (src/utils/__init__.py);                 *)
(* filter_indices_by_criteria (modules/index_filter.py);                   *)
(* process_index_data (modules/data_processor.py); get_dates_ranges        *)
(* (src/utils/__init__.py); update_index_info and its worker threads       *)
(* (modules/index_data_fetcher.py); the five stages of daily.py main.      *)
(*                                                                         *)
(* Numbers.  Indicator values (valuation percentile, Bollinger position)   *)
(* and thresholds are in hundredths (0.10 is 10).  Prices are positive     *)
(* integers.  Capital and shares are exact rationals [n, d] in lowest      *)
(* terms, so capital / price and shares * price are the exact quotient and *)
(* product; float rounding is not modelled.  A missing value (NaN, None)   *)
(* is the empty tuple and a present value v is <<v>>.  A date is the       *)
(* number of days since 2016-01-01.                                        *)
(***************************************************************************)
EXTENDS Integers, Sequences, FiniteSets, TLC

VARIABLES
    df,          \* index_info["dataframe"], by its description (see Frame)
    df_test,     \* the evaluation set with its shifted columns
    strategies,  \* the list of strategy dicts (configuration and state)
    log,         \* the trade log
    stat,        \* the stats list
    i,           \* position of the row loop in df_test
    pc,          \* "start", "loop", "force", "stats", "returned", "raised"
    result,      \* what the call returned or raised
    batch,       \* a batch loop over the filtered indices (see InitBatch)
    call         \* a call of one of the other functions (see InitFilter and after)

vars == <<df, df_test, strategies, log, stat, i, pc, result, batch, call>>

----------------------------------------------------------------------------
(* Bounds of the model *)

\* most rows of the evaluation set (bars after the warm-up)
MaxEval == 4
\* most bars dated before 2016-01-01
MaxPre == 1
\* the filtered index list of a batch loop holds 1..MaxIndices indices, the
\* list handed to filter_indices_by_criteria 0..MaxIndices
MaxIndices == 3
\* the frame handed to filter_consecutive_missing_data holds 0..MaxBars bars
MaxBars == 3
\* the frame handed to calculate_valuation_percentiles ends with 0..MaxTail
\* rows after its leading rows
MaxTail == 2

\* the backtest_stat list read by export_home_data holds 0..MaxStats entries
MaxStats == 3

\* retry is given max_attempts in 0..MaxAttempts
MaxAttempts == 5

\* get_dates_ranges is given an end up to MaxRanges full ranges after the
\* launch
MaxRanges == 2

\* update_index_info is given at most MaxFetch indices
MaxFetch == 2

----------------------------------------------------------------------------
(* Missing values *)

NaN == <<>>
None == <<>>
Some(v) == <<v>>
isna(x) == x = <<>>
Get(x) == x[1]

\* a < b on floats: False when either side is NaN
FLt(a, b) == ~isna(a) /\ ~isna(b) /\ Get(a) < Get(b)
\* a <= b on floats: False when either side is NaN
FLe(a, b) == ~isna(a) /\ ~isna(b) /\ Get(a) <= Get(b)

----------------------------------------------------------------------------
(* Exact rationals *)

Abs(x) == IF x < 0 THEN -x ELSE x

RECURSIVE Gcd(_, _)
Gcd(a, b) == IF b = 0 THEN a ELSE Gcd(b, a % b)

Rat(n, d) ==
    LET g == Gcd(Abs(n), Abs(d))
        s == IF d < 0 THEN -1 ELSE 1
    IN  [n |-> s * (n \div g), d |-> s * (d \div g)]

RatInt(k) == [n |-> k, d |-> 1]
RatMul(a, b) == Rat(a.n * b.n, a.d * b.d)
RatDiv(a, b) == Rat(a.n * b.d, a.d * b.n)
RatAdd(a, b) == Rat(a.n * b.d + b.n * a.d, a.d * b.d)
RatSub(a, b) == Rat(a.n * b.d - b.n * a.d, a.d * b.d)
RatLe(a, b) == a.n * b.d <= b.n * a.d
RatLt(a, b) == a.n * b.d < b.n * a.d
RatPos(a) == a.n > 0

----------------------------------------------------------------------------
(* Dates *)

IsLeap(y) == (y % 4 = 0 /\ y % 100 # 0) \/ y % 400 = 0

DaysInMonth(y, m) ==
    IF m = 2 THEN (IF IsLeap(y) THEN 29 ELSE 28)
    ELSE IF m \in {4, 6, 9, 11} THEN 30 ELSE 31

RECURSIVE CivilFrom(_, _, _)
CivilFrom(y, m, n) ==
    IF n < DaysInMonth(y, m) THEN <<y, m, n + 1>>
    ELSE IF m = 12 THEN CivilFrom(y + 1, 1, n - DaysInMonth(y, m))
    ELSE CivilFrom(y, m + 1, n - DaysInMonth(y, m))

\* date.strftime('%Y-%m-%d') of a date on or after 2016-01-01: year, month, day
strftime(date) == CivilFrom(2016, 1, date)

\* start_date = datetime(2016, 1, 1), as days since 2016-01-01
start_date == 0

----------------------------------------------------------------------------
(* Program constants *)

\* the warm-up: the first 250 bars after the cut-off are dropped
WarmUp == 250
\* strategy['capital'] = 100000
InitialCapital == 100000
\* stop_loss = current_return <= -0.15
StopLossRate == Rat(-15, 100)

required_columns == {"valuation_percentile", "bollinger_position", "open"}

\* the strategy table: buy_threshold, sell_threshold (hundredths), name, mode
StrategyTable ==
    << <<10, 40, "10-40 valuation", "fundamental">>,
       <<10, 50, "10-50 valuation", "fundamental">>,
       <<15, 45, "15-45 valuation", "fundamental">>,
       <<15, 55, "15-55 valuation", "fundamental">>,
       <<20, 50, "20-50 valuation", "fundamental">>,
       <<20, 60, "20-60 valuation", "fundamental">>,
       <<25, 55, "25-55 valuation", "fundamental">>,
       <<25, 65, "25-65 valuation", "fundamental">>,
       <<30, 60, "30-60 valuation", "fundamental">>,
       <<30, 70, "30-70 valuation", "fundamental">>,
       <<35, 65, "35-65 valuation", "fundamental">>,
       <<35, 75, "35-75 valuation", "fundamental">>,
       <<40, 70, "40-70 valuation", "fundamental">>,
       <<40, 80, "40-80 valuation", "fundamental">>,
       <<45, 75, "45-75 valuation", "fundamental">>,
       <<45, 85, "45-85 valuation", "fundamental">>,
       <<10, 40, "10-40 bollinger", "bollinger">>,
       <<10, 50, "10-50 bollinger", "bollinger">>,
       <<15, 45, "15-45 bollinger", "bollinger">>,
       <<15, 55, "15-55 bollinger", "bollinger">>,
       <<20, 50, "20-50 bollinger", "bollinger">>,
       <<20, 60, "20-60 bollinger", "bollinger">>,
       <<25, 55, "25-55 bollinger", "bollinger">>,
       <<25, 65, "25-65 bollinger", "bollinger">>,
       <<30, 60, "30-60 bollinger", "bollinger">>,
       <<30, 70, "30-70 bollinger", "bollinger">>,
       <<35, 65, "35-65 bollinger", "bollinger">>,
       <<35, 75, "35-75 bollinger", "bollinger">>,
       <<40, 70, "40-70 bollinger", "bollinger">>,
       <<40, 80, "40-80 bollinger", "bollinger">>,
       <<45, 75, "45-75 bollinger", "bollinger">>,
       <<45, 85, "45-85 bollinger", "bollinger">> >>

\* one strategy dict after the initialisation loop
InitStrategy(t) ==
    [ buy_threshold |-> t[1], sell_threshold |-> t[2], name |-> t[3], mode |-> t[4],
      position |-> FALSE, position_date |-> None, buy_price |-> 0,
      capital |-> RatInt(InitialCapital), shares |-> RatInt(0),
      total_holding_days |-> 0, total_return |-> 0,
      date_start |-> None, date_end |-> None ]

InitStrategies == [k \in 1..Len(StrategyTable) |-> InitStrategy(StrategyTable[k])]

----------------------------------------------------------------------------
(* The input frames *)

\* the indicator pairs <<valuation percentile, Bollinger position>> a bar can
\* carry.  5 is below every buy threshold, 30 between the buy thresholds, 90
\* above every sell threshold; either indicator can be missing while the
\* other is present
IndicatorPairs ==
    { <<Some(5), Some(5)>>, <<Some(30), NaN>>, <<Some(90), Some(90)>>,
      <<NaN, Some(30)>> }
\* opening prices: 85 is exactly 15% below 100
OpenValues == {Some(85), Some(100)}

Bar(date, val, boll, open) ==
    [ date |-> date, valuation_percentile |-> val, bollinger_position |-> boll,
      open |-> open, close |-> Some(Get(open) + 5) ]

\* the date of the k-th bar on or after 2016-01-01: Friday 2016-01-01, then
\* every weekday
PostDate(k) == (k - 1) + 2 * ((k + 3) \div 5)
\* the date of the k-th bar before 2016-01-01, counted backwards
PreDate(k) == -k

\* a bar of the history before the evaluation set
PlainBar(date) == Bar(date, NaN, NaN, Some(100))

\* A frame is held in the state by its description: its columns, the number
\* of plain bars dated before the cut-off (pre), the number of plain bars
\* dated from the cut-off on (plain), and the bars that follow them (tail).
Frame(cols, nPre, nPlain, tail) ==
    [columns |-> cols, pre |-> nPre, plain |-> nPlain, tail |-> tail]

\* the rows of the frame in date order, as the code reads them
Rows(frame) ==
    [k \in 1..(frame.pre + frame.plain + Len(frame.tail)) |->
        IF k <= frame.pre THEN PlainBar(PreDate(frame.pre + 1 - k))
        ELSE IF k <= frame.pre + frame.plain THEN PlainBar(PostDate(k - frame.pre))
        ELSE [frame.tail[k - frame.pre - frame.plain] EXCEPT
                 !.date = PostDate(k - frame.pre)]]

TailBars == {Bar(0, p[1], p[2], o) : p \in IndicatorPairs, o \in OpenValues}

RECURSIVE Tails(_)
Tails(n) == IF n = 0 THEN {<<>>} ELSE {Append(t, b) : t \in Tails(n - 1), b \in TailBars}

AllColumns == {"date", "close"} \cup required_columns

----------------------------------------------------------------------------
(* Window selection *)

\* df[df['date'] >= start_date]
df_filtered(rows) == SelectSeq(rows, LAMBDA r : r.date >= start_date)

\* rows.iloc[k:]
iloc_from(rows, k) == SubSeq(rows, k + 1, Len(rows))

\* mutant: the warm-up cut one bar short (iloc[249:])
TestRows_OffByOne(rows) == iloc_from(df_filtered(rows), WarmUp - 1)

\* df_filtered.iloc[250:].reset_index(drop=True)
TestRows(rows) == iloc_from(df_filtered(rows), WarmUp)

\* the three early returns "return [], []"
InsufficientData(rows) ==
    \/ Len(rows) <= WarmUp
    \/ Len(df_filtered(rows)) <= WarmUp
    \/ Len(TestRows(rows)) = 0

missing_columns(columns) == {col \in required_columns : col \notin columns}

\* mutant: next_open taken from the row itself (the shift(-1) forgotten)
AddShifted_NoShift(rows) ==
    [k \in 1..Len(rows) |->
        rows[k] @@
        [ prev_valuation_percentile |->
              IF k = 1 THEN NaN ELSE rows[k - 1].valuation_percentile,
          prev_bollinger_position |->
              IF k = 1 THEN NaN ELSE rows[k - 1].bollinger_position,
          next_open |-> rows[k].open ]]

\* mutant: next_open taken two rows ahead (shift(-2))
AddShifted_Lookahead(rows) ==
    [k \in 1..Len(rows) |->
        rows[k] @@
        [ prev_valuation_percentile |->
              IF k = 1 THEN NaN ELSE rows[k - 1].valuation_percentile,
          prev_bollinger_position |->
              IF k = 1 THEN NaN ELSE rows[k - 1].bollinger_position,
          next_open |-> IF k + 2 > Len(rows) THEN NaN ELSE rows[k + 2].open ]]

\* the columns prev_valuation_percentile, prev_bollinger_position (shift(1))
\* and next_open (shift(-1)) added to df_test
AddShifted(rows) ==
    [k \in 1..Len(rows) |->
        rows[k] @@
        [ prev_valuation_percentile |->
              IF k = 1 THEN NaN ELSE rows[k - 1].valuation_percentile,
          prev_bollinger_position |->
              IF k = 1 THEN NaN ELSE rows[k - 1].bollinger_position,
          next_open |-> IF k = Len(rows) THEN NaN ELSE rows[k + 1].open ]]

----------------------------------------------------------------------------
(* Signals *)

\* mutant: level-triggered, the signal holds on every day at or above the
\* threshold
CrossedUp_Level(prev, curr, threshold) == FLe(Some(threshold), curr)

\* mutant: prev <= threshold <= curr
CrossedUp_Inclusive(prev, curr, threshold) ==
    FLe(prev, Some(threshold)) /\ FLe(Some(threshold), curr)

\* prev < threshold <= curr, False when prev or curr is NaN
CrossedUp(prev, curr, threshold) ==
    FLt(prev, Some(threshold)) /\ FLe(Some(threshold), curr)

\* the indicator pair the strategy's mode reads: <<previous day, this day>>
ModeIndicator(strategy, row) ==
    IF strategy.mode = "fundamental"
    THEN <<row.prev_valuation_percentile, row.valuation_percentile>>
    ELSE <<row.prev_bollinger_position, row.bollinger_position>>

buy_signal(strategy, row) ==
    /\ ~strategy.position
    /\ CrossedUp(ModeIndicator(strategy, row)[1], ModeIndicator(strategy, row)[2],
                 strategy.buy_threshold)

take_profit(strategy, row) ==
    CrossedUp(ModeIndicator(strategy, row)[1], ModeIndicator(strategy, row)[2],
              strategy.sell_threshold)

current_return(strategy, next_open_price) ==
    IF strategy.buy_price # 0
    THEN RatDiv(RatInt(next_open_price - strategy.buy_price), RatInt(strategy.buy_price))
    ELSE RatInt(0)

\* mutant: current_return < -0.15
stop_loss_Strict(strategy, next_open_price) ==
    RatLt(current_return(strategy, next_open_price), StopLossRate)

stop_loss(strategy, next_open_price) ==
    RatLe(current_return(strategy, next_open_price), StopLossRate)

\* the day is skipped by "continue"
SkipDay(row) == isna(row.prev_valuation_percentile) \/ isna(row.next_open)

----------------------------------------------------------------------------
(* One strategy on one evaluated day *)

TradeLog(date, strategy, direction, amount, price) ==
    [ date |-> strftime(date), strategy_name |-> strategy.name,
      direction |-> direction, amount |-> amount, price |-> price, cash |-> amount ]

\* mutant: a buy fills in the position but leaves the position flag unset
Bought_NoFlag(strategy, date, next_open_price) ==
    [strategy EXCEPT !.position_date = Some(date),
                     !.buy_price = next_open_price,
                     !.shares = RatDiv(strategy.capital, RatInt(next_open_price))]

\* the state after a buy at next_open_price
Bought(strategy, date, next_open_price) ==
    [strategy EXCEPT !.position = TRUE,
                     !.position_date = Some(date),
                     !.buy_price = next_open_price,
                     !.shares = RatDiv(strategy.capital, RatInt(next_open_price))]

\* mutant: the sale credits the shares at the price they were bought at
Sold_AtBuyPrice(strategy, date, sell_price) ==
    [strategy EXCEPT !.total_holding_days = @ + (date - Get(strategy.position_date)),
                     !.position = FALSE,
                     !.position_date = None,
                     !.buy_price = 0,
                     !.shares = RatInt(0),
                     !.capital = RatMul(strategy.shares, RatInt(strategy.buy_price))]

\* mutant: the holding days count both the day of the buy and the day of the
\* sale
Sold_InclusiveDays(strategy, date, sell_price) ==
    [strategy EXCEPT !.total_holding_days = @ + (date - Get(strategy.position_date)) + 1,
                     !.position = FALSE,
                     !.position_date = None,
                     !.buy_price = 0,
                     !.shares = RatInt(0),
                     !.capital = RatMul(strategy.shares, RatInt(sell_price))]

\* mutant: a sale leaves the shares in the strategy
Sold_KeepsShares(strategy, date, sell_price) ==
    [strategy EXCEPT !.total_holding_days = @ + (date - Get(strategy.position_date)),
                     !.position = FALSE,
                     !.position_date = None,
                     !.buy_price = 0,
                     !.capital = RatMul(strategy.shares, RatInt(sell_price))]

\* the state after a sale at sell_price on date
Sold(strategy, date, sell_price) ==
    [strategy EXCEPT !.total_holding_days = @ + (date - Get(strategy.position_date)),
                     !.position = FALSE,
                     !.position_date = None,
                     !.buy_price = 0,
                     !.shares = RatInt(0),
                     !.capital = RatMul(strategy.shares, RatInt(sell_price))]

\* the sell branch: taken when the strategy holds a position and has capital
SellCheck(strategy, date, row) ==
    LET next_open_price == Get(row.next_open)
        sl == stop_loss(strategy, next_open_price)
        tp == take_profit(strategy, row)
        sell_capital == RatMul(strategy.shares, RatInt(next_open_price))
    IN  IF sl \/ tp
        THEN [ strategy |-> Sold(strategy, date, next_open_price),
               events |-> << TradeLog(date, strategy,
                                      IF sl THEN "stop_loss_sell" ELSE "take_profit_sell",
                                      sell_capital, next_open_price) >> ]
        ELSE [ strategy |-> strategy, events |-> <<>> ]

\* mutant: the sell check is an "if" of its own and also runs on the day of a
\* buy
StepStrategy_NoElif(strategy0, row) ==
    LET date == row.date
        next_open_price == Get(row.next_open)
        strategy == [strategy0 EXCEPT
                        !.date_start = IF isna(@) THEN Some(date) ELSE @,
                        !.date_end = Some(date)]
        bought == IF buy_signal(strategy, row)
                  THEN [ strategy |-> Bought(strategy, date, next_open_price),
                         events |-> << TradeLog(date, strategy, "buy",
                                                strategy.capital, next_open_price) >> ]
                  ELSE [ strategy |-> strategy, events |-> <<>> ]
        sold == IF bought.strategy.position /\ RatPos(bought.strategy.capital)
                THEN SellCheck(bought.strategy, date, row)
                ELSE [ strategy |-> bought.strategy, events |-> <<>> ]
    IN  [ strategy |-> sold.strategy, events |-> bought.events \o sold.events ]

\* the body of "for strategy in strategies" for one strategy: its new state
\* and the events it appends to the log
StepStrategy(strategy0, row) ==
    LET date == row.date
        next_open_price == Get(row.next_open)
        strategy == [strategy0 EXCEPT
                        !.date_start = IF isna(@) THEN Some(date) ELSE @,
                        !.date_end = Some(date)]
    IN  IF buy_signal(strategy, row)
        THEN [ strategy |-> Bought(strategy, date, next_open_price),
               events |-> << TradeLog(date, strategy, "buy", strategy.capital,
                                      next_open_price) >> ]
        ELSE IF strategy.position /\ RatPos(strategy.capital)
        THEN SellCheck(strategy, date, row)
        ELSE [ strategy |-> strategy, events |-> <<>> ]

\* the events of steps k.. in order
RECURSIVE EventsFrom(_, _)
EventsFrom(steps, k) ==
    IF k > Len(steps) THEN <<>> ELSE steps[k].events \o EventsFrom(steps, k + 1)

\* mutant: one position flag shared by all strategies (that of the first)
StepAll_SharedPosition(strats, row) ==
    <<>> \o [k \in 1..Len(strats) |->
                StepStrategy([strats[k] EXCEPT !.position = strats[1].position], row)]

\* "for strategy in strategies" on one row: the step of every strategy, in
\* list order; a step reads and writes only its own strategy dict
StepAll(strats, row) ==
    <<>> \o [k \in 1..Len(strats) |-> StepStrategy(strats[k], row)]

----------------------------------------------------------------------------
(* Forced liquidation *)

\* mutant: the forced sale falls back to the last row's open
ForceSellPrice_Open(last_row) ==
    IF isna(last_row.next_open) THEN Get(last_row.open) ELSE Get(last_row.next_open)

\* the price of the forced sale: the last row's next open, else its close
ForceSellPrice(last_row) ==
    IF isna(last_row.next_open) THEN Get(last_row.close) ELSE Get(last_row.next_open)

\* mutant: the forced sale is logged under the first evaluated date
ForceSellStrategy_DatedAtStart(strategy, last_row) ==
    IF strategy.position
    THEN LET sell_price == ForceSellPrice(last_row)
             sell_capital == RatMul(strategy.shares, RatInt(sell_price))
         IN  [ strategy |-> Sold(strategy, last_row.date, sell_price),
               events |-> << TradeLog(Get(strategy.date_start), strategy,
                                      "force_sell", sell_capital, sell_price) >> ]
    ELSE [ strategy |-> strategy, events |-> <<>> ]

ForceSellStrategy(strategy, last_row) ==
    IF strategy.position
    THEN LET sell_price == ForceSellPrice(last_row)
             sell_capital == RatMul(strategy.shares, RatInt(sell_price))
         IN  [ strategy |-> Sold(strategy, last_row.date, sell_price),
               events |-> << TradeLog(last_row.date, strategy, "force_sell",
                                      sell_capital, sell_price) >> ]
    ELSE [ strategy |-> strategy, events |-> <<>> ]

\* "for strategy in strategies" of the forced liquidation
ForceSellAll(strats, last_row) ==
    <<>> \o [k \in 1..Len(strats) |-> ForceSellStrategy(strats[k], last_row)]

----------------------------------------------------------------------------
(* Statistics *)

strategy_duration(strategy) ==
    IF ~isna(strategy.date_start) /\ ~isna(strategy.date_end)
    THEN Get(strategy.date_end) - Get(strategy.date_start)
    ELSE 0

total_rate(strategy) ==
    RatDiv(RatSub(strategy.capital, RatInt(InitialCapital)), RatInt(InitialCapital))

strategy_duration_rate(strategy) ==
    IF strategy_duration(strategy) > 0
    THEN RatDiv(total_rate(strategy), Rat(strategy_duration(strategy), 365))
    ELSE RatInt(0)

\* mutant: the power is taken whenever days were held, whatever the base
annual_return_NoBaseGuard(strategy) ==
    LET base == RatSub(total_rate(strategy), RatInt(-1))
    IN  IF strategy.total_holding_days > 0
        THEN [power |-> TRUE, base |-> base,
              exponent |-> Rat(365, strategy.total_holding_days)]
        ELSE [power |-> FALSE]

\* np.power(base, 365 / total_holding_days) - 1 is kept as its base and
\* exponent; power = FALSE is the value 0
annual_return(strategy) ==
    LET base == RatSub(total_rate(strategy), RatInt(-1))
    IN  IF strategy.total_holding_days > 0 /\ RatPos(base)
        THEN [power |-> TRUE, base |-> base,
              exponent |-> Rat(365, strategy.total_holding_days)]
        ELSE [power |-> FALSE]

\* position_rate = total_holding_days / strategy_duration raises
\* ZeroDivisionError when the duration is 0
StatRaises(strategy) == strategy_duration(strategy) = 0

strategy_stat(strategy) ==
    [ mode |-> strategy.mode,
      strategy_name |-> strategy.name,
      buy_threshold |-> strategy.buy_threshold,
      sell_threshold |-> strategy.sell_threshold,
      holding_days |-> strategy.total_holding_days,
      capital |-> strategy.capital,
      total_return |-> RatSub(strategy.capital, RatInt(InitialCapital)),
      total_rate |-> total_rate(strategy),
      annual_return |-> annual_return(strategy),
      strategy_duration |-> strategy_duration(strategy),
      strategy_duration_rate |-> strategy_duration_rate(strategy),
      position_rate |-> Rat(strategy.total_holding_days, strategy_duration(strategy)) ]

\* stat.sort(key=strategy_duration_rate, reverse=True): stable, so equal keys
\* keep their order
\* mutant: an entry is moved in front of the entries with an equal key
RECURSIVE InsertStat_TiesReversed(_, _)
InsertStat_TiesReversed(sorted, x) ==
    IF sorted = <<>> THEN <<x>>
    ELSE IF RatLe(sorted[Len(sorted)].strategy_duration_rate, x.strategy_duration_rate)
         THEN Append(InsertStat_TiesReversed(SubSeq(sorted, 1, Len(sorted) - 1), x),
                     sorted[Len(sorted)])
         ELSE Append(sorted, x)

RECURSIVE InsertStat(_, _)
InsertStat(sorted, x) ==
    IF sorted = <<>> THEN <<x>>
    ELSE IF RatLt(sorted[Len(sorted)].strategy_duration_rate, x.strategy_duration_rate)
         THEN Append(InsertStat(SubSeq(sorted, 1, Len(sorted) - 1), x), sorted[Len(sorted)])
         ELSE Append(sorted, x)

RECURSIVE SortStat(_)
SortStat(st) ==
    IF st = <<>> THEN <<>>
    ELSE InsertStat(SortStat(SubSeq(st, 1, Len(st) - 1)), st[Len(st)])

----------------------------------------------------------------------------
(* The call backtest_single_index(index_info) *)

\* result: nothing yet, "return log, stat" (the values of log and stat), or
\* the name of the exception raised
NoResult == "none"
\* no batch loop is running, no filter call is made
NoBatch == <<>>
NoCall == <<>>
Returned == "return"
Raised(err) == err

\* the column sets: all columns, or some of the required ones missing
ColumnSets == {AllColumns \ missing : missing \in SUBSET required_columns}

Frames ==
    \* too little history, with and without the required columns
    {Frame(cols, nPre, nPlain, <<>>) :
        cols \in ColumnSets, nPre \in 0..MaxPre, nPlain \in {0, WarmUp - 1, WarmUp}}
    \cup
    \* enough history, a required column missing
    {Frame(cols, MaxPre, WarmUp, <<PlainBar(0)>>) : cols \in ColumnSets \ {AllColumns}}
    \cup
    \* enough history: the warm-up and then 1..MaxEval bars
    {Frame(AllColumns, MaxPre, WarmUp, tail) :
        tail \in UNION {Tails(n) : n \in 1..MaxEval}}

Init ==
    /\ df \in Frames
    /\ df_test = <<>>
    /\ strategies = <<>>
    /\ log = <<>>
    /\ stat = <<>>
    /\ i = 0
    /\ pc = "start"
    /\ result = NoResult
    /\ batch = NoBatch
    /\ call = NoCall

\* lines 45-140: the window selection, the column check and the set-up
Start ==
    /\ pc = "start"
    /\ IF InsufficientData(Rows(df))
       THEN /\ pc' = "returned"
            /\ result' = Returned
            /\ UNCHANGED <<df_test, strategies, i>>
       ELSE IF missing_columns(df.columns) # {}
       THEN /\ pc' = "raised"
            /\ result' = Raised("KeyError")
            /\ df_test' = TestRows(Rows(df))
            /\ UNCHANGED <<strategies, i>>
       ELSE /\ pc' = "loop"
            /\ df_test' = AddShifted(TestRows(Rows(df)))
            /\ strategies' = InitStrategies
            /\ i' = 1
            /\ UNCHANGED result
    /\ UNCHANGED <<df, log, stat, batch, call>>

\* lines 142-231: one iteration of "for i, row in df_test.iterrows()"
LoopDay ==
    /\ pc = "loop"
    /\ IF SkipDay(df_test[i])
       THEN UNCHANGED <<strategies, log>>
       ELSE \E steps \in {StepAll(strategies, df_test[i])} :
                /\ strategies' = [k \in 1..Len(steps) |-> steps[k].strategy]
                /\ log' = log \o EventsFrom(steps, 1)
    /\ i' = i + 1
    /\ pc' = IF i = Len(df_test) THEN "force" ELSE "loop"
    /\ UNCHANGED <<df, df_test, stat, result, batch, call>>

\* lines 233-268: the strategies still holding a position are sold
ForceSell ==
    /\ pc = "force"
    /\ \E steps \in {ForceSellAll(strategies, df_test[Len(df_test)])} :
           /\ strategies' = [k \in 1..Len(steps) |-> steps[k].strategy]
           /\ log' = log \o EventsFrom(steps, 1)
    /\ pc' = "stats"
    /\ UNCHANGED <<df, df_test, stat, i, result, batch, call>>

\* lines 270-321: the stats of every strategy, sorted, and the return
ComputeStats ==
    /\ pc = "stats"
    /\ IF \E k \in 1..Len(strategies) : StatRaises(strategies[k])
       THEN /\ pc' = "raised"
            /\ result' = Raised("ZeroDivisionError")
            /\ stat' = LET k == CHOOSE k \in 1..Len(strategies) :
                                  /\ StatRaises(strategies[k])
                                  /\ \A j \in 1..(k - 1) : ~StatRaises(strategies[j])
                       IN  [j \in 1..(k - 1) |-> strategy_stat(strategies[j])]
       ELSE /\ pc' = "returned"
            /\ stat' = SortStat([k \in 1..Len(strategies) |-> strategy_stat(strategies[k])])
            /\ result' = Returned
    /\ UNCHANGED <<df, df_test, strategies, log, i, batch, call>>

Next == Start \/ LoopDay \/ ForceSell \/ ComputeStats

Spec == Init /\ [][Next]_vars

\* the statistics loop (lines 271-316) on its own: one strategy that reaches
\* it with a final capital, a holding total and a traversed window
StatCapitals == {-50000, 0, 50000, 100000, 150000, 200000}
StatHoldingDays == {0, 1, 2, 30, 365, 400}
StatDurations == {1, 365, 800}

StatStrategy(capital, holding_days, duration) ==
    [InitStrategy(StrategyTable[1]) EXCEPT
        !.capital = RatInt(capital),
        !.total_holding_days = holding_days,
        !.date_start = Some(WarmUp),
        !.date_end = Some(WarmUp + duration)]

InitStats ==
    /\ df = Frame(AllColumns, 0, WarmUp, <<PlainBar(0), PlainBar(0)>>)
    /\ df_test = <<>>
    /\ \E capital \in StatCapitals, holding_days \in StatHoldingDays,
          duration \in StatDurations :
          /\ holding_days <= duration
          /\ holding_days = 0 => capital = InitialCapital
          /\ strategies = << StatStrategy(capital, holding_days, duration) >>
    /\ log = <<>>
    /\ stat = <<>>
    /\ i = 0
    /\ pc = "stats"
    /\ result = NoResult
    /\ batch = NoBatch
    /\ call = NoCall

NextStats == ComputeStats

SpecStats == InitStats /\ [][NextStats]_vars

\* no backtest call is under way
BacktestIdle ==
    /\ df = Frame(AllColumns, 0, 0, <<>>)
    /\ df_test = <<>>
    /\ strategies = <<>>
    /\ log = <<>>
    /\ stat = <<>>
    /\ i = 0
    /\ pc = "idle"
    /\ result = NoResult

----------------------------------------------------------------------------
(* The batch loops over cn_index_filtered.json: daily.py calculate_index    *)
(* and backtest_index, src/s05_calculate_index.py calculate_index and       *)
(* src/s20_backtest.py backtest_strategy.  An iteration loads the index's   *)
(* pickle, computes, and dumps the updated record to the same file.         *)

BatchLoops ==
    {"daily.calculate_index", "daily.backtest_index",
     "s05.calculate_index", "s20.backtest_strategy"}

\* the loops whose body is inside try ... except Exception
Catches(loop) == loop \in {"daily.calculate_index", "daily.backtest_index"}

\* what the body does for an index: it runs through, the pickle cannot be
\* loaded, or the computation raises
Outcomes == {"ok", "load_raises", "compute_raises"}

InitBatch ==
    /\ BacktestIdle
    /\ call = NoCall
    /\ \E loop \in BatchLoops, n \in 1..MaxIndices :
          \E outcomes \in [1..n -> Outcomes] :
              batch = [ loop |-> loop,
                        outcomes |-> outcomes,
                        store |-> [k \in 1..n |-> "old"],
                        errors |-> <<>>,
                        k |-> 1,
                        status |-> "running" ]

\* one iteration of "for index in cn_index": the record is dumped only after
\* the load and the computation went through; an exception is logged with
\* the index's code where the body is in a try, and leaves the loop
\* otherwise
BatchIteration ==
    /\ batch # NoBatch
    /\ batch.status = "running"
    /\ batch.k <= Len(batch.outcomes)
    /\ batch' =
          IF batch.outcomes[batch.k] = "ok"
          THEN [batch EXCEPT !.store[batch.k] = "new", !.k = @ + 1]
          ELSE IF Catches(batch.loop)
          THEN [batch EXCEPT !.errors = Append(@, batch.k), !.k = @ + 1]
          ELSE [batch EXCEPT !.status = "aborted"]
    /\ UNCHANGED <<df, df_test, strategies, log, stat, i, pc, result, call>>

\* the list is exhausted: the function returns
BatchEnd ==
    /\ batch # NoBatch
    /\ batch.status = "running"
    /\ batch.k > Len(batch.outcomes)
    /\ batch' = [batch EXCEPT !.status = "done"]
    /\ UNCHANGED <<df, df_test, strategies, log, stat, i, pc, result, call>>

NextBatch == BatchIteration \/ BatchEnd

SpecBatch == InitBatch /\ [][NextBatch]_vars

----------------------------------------------------------------------------
(* filter_consecutive_missing_data(df): modules/data_processor.py and       *)
(* daily.py                                                                 *)

key_columns == {"pe_ttm.mcw", "pb.mcw", "dyr.mcw"}

FilterVersions == {"modules.data_processor", "daily"}

\* the frames handed to the function: any of the key columns, a fresh index
\* 0..n-1, bars in date order, every value present or missing
RECURSIVE FilterRows(_, _)
FilterRows(cols, n) ==
    IF n = 0 THEN {<<>>}
    ELSE { Append(rows, [index |-> n - 1, date |-> n, values |-> v]) :
             rows \in FilterRows(cols, n - 1), v \in [cols -> {NaN, Some(1)}] }

FilterFrames ==
    UNION { { [columns |-> cols, rows |-> rows] :
                rows \in UNION {FilterRows(cols, n) : n \in 0..MaxBars} } :
            cols \in SUBSET key_columns }

InitFilter ==
    /\ BacktestIdle
    /\ batch = NoBatch
    /\ \E version \in FilterVersions, frame \in FilterFrames :
          call = [ version |-> version, df |-> frame, state |-> "called",
                   result |-> <<>>, again |-> None ]

\* df[existing_columns].notna().any(axis=1)
has_valid_data(frame, existing_columns) ==
    [k \in 1..Len(frame.rows) |->
        \E col \in existing_columns : ~isna(frame.rows[k].values[col])]

\* has_valid_data.idxmax() if has_valid_data.any() else len(df): the index
\* label of the first True
first_valid_index(frame, existing_columns) ==
    LET valid == has_valid_data(frame, existing_columns)
    IN  IF \E k \in 1..Len(valid) : valid[k]
        THEN frame.rows[CHOOSE k \in 1..Len(valid) :
                            valid[k] /\ \A j \in 1..(k - 1) : ~valid[j]].index
        ELSE Len(frame.rows)

\* modules/data_processor.py: the key columns that exist are looked at, and
\* a frame with none of them is returned as it is
filter_modules(frame) ==
    LET existing_columns == key_columns \cap frame.columns
    IN  IF existing_columns = {}
        THEN [state |-> "returned", result |-> frame.rows]
        ELSE [state |-> "returned",
              result |-> iloc_from(frame.rows,
                                   first_valid_index(frame, existing_columns))]

\* daily.py: df[key_columns] raises KeyError when a key column is absent
filter_daily(frame) ==
    IF ~(key_columns \subseteq frame.columns)
    THEN [state |-> "KeyError", result |-> <<>>]
    ELSE [state |-> "returned",
          result |-> iloc_from(frame.rows, first_valid_index(frame, key_columns))]

filter_consecutive_missing_data ==
    /\ call # NoCall
    /\ call.state = "called"
    /\ \E out \in { IF call.version = "daily" THEN filter_daily(call.df)
                    ELSE filter_modules(call.df) } :
          call' = [call EXCEPT !.state = out.state, !.result = out.result]
    /\ UNCHANGED <<df, df_test, strategies, log, stat, i, pc, result, batch>>

\* the function applied to the frame it returned: iloc[...].copy() keeps the
\* index labels of the rows it returns
filter_again ==
    /\ call # NoCall
    /\ call.state = "returned"
    /\ call.again = None
    /\ \E out \in { LET frame == [columns |-> call.df.columns, rows |-> call.result]
                    IN  IF call.version = "daily" THEN filter_daily(frame)
                        ELSE filter_modules(frame) } :
          call' = [call EXCEPT !.again = Some(out)]
    /\ UNCHANGED <<df, df_test, strategies, log, stat, i, pc, result, batch>>

NextFilter == filter_consecutive_missing_data \/ filter_again

SpecFilter == InitFilter /\ [][NextFilter]_vars

----------------------------------------------------------------------------
(* calculate_valuation_percentiles(df): modules/data_processor.py           *)
(*                                                                          *)
(* The frame is held as PlainRows(k) for its first `plain` rows and an      *)
(* explicit tail; the returned frame is read at one row, call.i.  A         *)
(* percentile is an exact rational.                                         *)

\* rolling(window=500, min_periods=1)
Window == 500
min_periods == 1

valuation_columns == {"pe", "pb", "dyr"}

\* the valuation triples <<pe, pb, dyr>> of a tail row: repeated values,
\* distinct values, and each field missing
ValuationTriples ==
    { <<Some(1), Some(1), Some(1)>>, <<Some(2), Some(2), Some(2)>>,
      <<Some(3), Some(1), Some(2)>>, <<Some(2), Some(3), Some(1)>>,
      <<NaN, Some(1), Some(1)>>, <<Some(1), NaN, Some(2)>>,
      <<Some(2), Some(2), NaN>>, <<NaN, NaN, NaN>> }

ValuationRow(t) == [pe |-> t[1], pb |-> t[2], dyr |-> t[3]]

\* the k-th of the leading rows: the values 1, 2, 3 in turn, each field at
\* its own phase
PlainRows(k) ==
    [pe |-> Some(1 + (k % 3)), pb |-> Some(1 + ((k + 1) % 3)),
     dyr |-> Some(1 + ((k + 2) % 3))]

RECURSIVE ValuationTails(_)
ValuationTails(n) ==
    IF n = 0 THEN {<<>>}
    ELSE {Append(t, ValuationRow(v)) : t \in ValuationTails(n - 1), v \in ValuationTriples}

\* frames shorter than the window, and frames whose tail rows are the 499th
\* to the 502nd and later
PlainCounts == {0, Window - 2, Window - 1, Window}

ValuationFrames ==
    { [columns |-> valuation_columns, plain |-> n, tail |-> t] :
        n \in PlainCounts, t \in UNION {ValuationTails(k) : k \in 0..MaxTail} }
    \cup
    { [columns |-> cols, plain |-> 0, tail |-> <<ValuationRow(<<Some(1), Some(1), Some(1)>>)>>] :
        cols \in (SUBSET valuation_columns) \ {valuation_columns} }

FrameLen(frame) == frame.plain + Len(frame.tail)

\* df[col] at row k
ValueAt(frame, col, k) ==
    IF k <= frame.plain THEN PlainRows(k)[col] ELSE frame.tail[k - frame.plain][col]

\* the rows of the returned frame that are read: the first, those around the
\* end of the leading rows, and every tail row
ProbeRows(frame) ==
    {k \in {1, 2, frame.plain} \cup (frame.plain + 1)..FrameLen(frame) :
        1 <= k /\ k <= FrameLen(frame)}

InitPercentiles ==
    /\ BacktestIdle
    /\ batch = NoBatch
    /\ \E frame \in ValuationFrames :
          \E k \in (IF ProbeRows(frame) = {} THEN {0} ELSE ProbeRows(frame)) :
              call = [ fn |-> "calculate_valuation_percentiles", df |-> frame,
                       i |-> k, state |-> "called", result |-> <<>> ]

\* the rows of the trailing window that ends at row k
WindowRows(k) == (IF k > Window THEN k - Window + 1 ELSE 1)..k

\* mutant: method='max', the rank counts the values that are <= the value
rolling_rank_MaxRank(frame, col, k) ==
    LET valid == {j \in WindowRows(k) : ~isna(ValueAt(frame, col, j))}
        x == ValueAt(frame, col, k)
    IN  IF Cardinality(valid) < min_periods \/ isna(x) THEN NaN
        ELSE Some(Rat(Cardinality({j \in valid : Get(ValueAt(frame, col, j)) <= Get(x)}),
                      Cardinality(valid)))

\* mutant: pct divides by the length of the window, missing values included
rolling_rank_CountAll(frame, col, k) ==
    LET valid == {j \in WindowRows(k) : ~isna(ValueAt(frame, col, j))}
        x == ValueAt(frame, col, k)
    IN  IF Cardinality(valid) < min_periods \/ isna(x) THEN NaN
        ELSE Some(Rat(1 + Cardinality({j \in valid : Get(ValueAt(frame, col, j)) < Get(x)}),
                      Cardinality(WindowRows(k))))

\* df[col].rolling(window=500, min_periods=1).apply(
\*     lambda x: x.rank(method='min', pct=True).iloc[-1]) at row k: NaN when
\* the window has no value or the row's own value is missing, else the
\* minimum rank of the value among the values of the window over their count
rolling_rank(frame, col, k) ==
    LET valid == {j \in WindowRows(k) : ~isna(ValueAt(frame, col, j))}
        x == ValueAt(frame, col, k)
    IN  IF Cardinality(valid) < min_periods \/ isna(x) THEN NaN
        ELSE Some(Rat(1 + Cardinality({j \in valid : Get(ValueAt(frame, col, j)) < Get(x)}),
                      Cardinality(valid)))

\* mutant: the dividend yield is ranked like the other two fields
dyr_yield_NotInverted(frame, k) == rolling_rank(frame, "dyr", k)

\* 1 - rank of the dividend yield
dyr_yield(frame, k) ==
    LET r == rolling_rank(frame, "dyr", k)
    IN  IF isna(r) THEN NaN ELSE Some(RatSub(RatInt(1), Get(r)))

\* mutant: the mean of the fields that are present
composite_SkipNaN(pe, pb, dyr) ==
    LET present == SelectSeq(<<pe, pb, dyr>>, LAMBDA x : ~isna(x))
    IN  IF present = <<>> THEN NaN
        ELSE IF Len(present) = 1 THEN present[1]
        ELSE IF Len(present) = 2
        THEN Some(RatDiv(RatAdd(Get(present[1]), Get(present[2])), RatInt(2)))
        ELSE Some(RatDiv(RatAdd(RatAdd(Get(pe), Get(pb)), Get(dyr)), RatInt(3)))

\* (pe percentile + pb percentile + dyr yield) / 3: NaN when any is NaN
composite(pe, pb, dyr) ==
    IF isna(pe) \/ isna(pb) \/ isna(dyr) THEN NaN
    ELSE Some(RatDiv(RatAdd(RatAdd(Get(pe), Get(pb)), Get(dyr)), RatInt(3)))

\* row k of the frame the function returns
PercentileRow(frame, k) ==
    LET pe == rolling_rank(frame, "pe", k)
        pb == rolling_rank(frame, "pb", k)
        dyr == dyr_yield(frame, k)
    IN  [ pe_percentile |-> pe, pb_percentile |-> pb, dyr_yield |-> dyr,
          valuation_percentile |-> composite(pe, pb, dyr) ]

calculate_valuation_percentiles ==
    /\ call # NoCall
    /\ call.fn = "calculate_valuation_percentiles"
    /\ call.state = "called"
    /\ call' =
          IF ~(valuation_columns \subseteq call.df.columns)
          THEN [call EXCEPT !.state = "KeyError"]
          ELSE [call EXCEPT !.state = "returned",
                            !.result = IF call.i = 0 THEN <<>>
                                       ELSE PercentileRow(call.df, call.i)]
    /\ UNCHANGED <<df, df_test, strategies, log, stat, i, pc, result, batch>>

NextPercentiles == calculate_valuation_percentiles

SpecPercentiles == InitPercentiles /\ [][NextPercentiles]_vars

----------------------------------------------------------------------------
(* modules/data_exporter.py: export_home_data                               *)
(*                                                                          *)
(* call.index_list holds, for each index of the list, the backtest_stat of  *)
(* its pickle; an entry of the result carries the six summary fields, its   *)
(* other fields are copied from the last row of the frame.                  *)

\* sum(arr)
RECURSIVE RatSum(_)
RatSum(arr) ==
    IF arr = <<>> THEN RatInt(0) ELSE RatAdd(arr[1], RatSum(Tail(arr)))

\* mean_with_default(arr, 0); the mean of the statistics is never NaN
mean_with_default(arr) ==
    IF Len(arr) = 0 THEN RatInt(0)
    ELSE RatDiv(RatSum(arr), RatInt(Len(arr)))

\* the statistics of one strategy that the export reads
ExportStats ==
    { [ mode |-> mode,
        buy_threshold |-> t[1], sell_threshold |-> t[2],
        strategy_duration_rate |-> rate,
        position_rate |-> position ] :
        mode \in {"fundamental", "bollinger"},
        t \in {<<Rat(10, 100), Rat(40, 100)>>, <<Rat(45, 100), Rat(85, 100)>>},
        rate \in {Rat(-1, 10), Rat(1, 10), Rat(3, 10)},
        position \in {Rat(10, 100), Rat(15, 100), Rat(20, 100)} }

\* index_info.get("backtest_stat", [])
ExportStatLists ==
    UNION { [1..n -> ExportStats] : n \in 0..MaxStats }

InitExport ==
    /\ BacktestIdle
    /\ batch = NoBatch
    /\ \E index_list \in {<<>>} \cup {<<l>> : l \in ExportStatLists} :
          call = [ fn |-> "export_home_data", index_list |-> index_list,
                   state |-> "loop", result |-> <<>> ]

\* [stat[field] for stat in stats]
Field(stats, field) == [k \in 1..Len(stats) |-> stats[k][field]]

\* the stat of the mode, the mean rate of those held more than 15% of the
\* time, and the strategies above it
mode_stat(backtest_stat, mode) ==
    SelectSeq(backtest_stat, LAMBDA st : st.mode = mode)

rate_median(backtest_stat, mode) ==
    mean_with_default(
        Field(SelectSeq(mode_stat(backtest_stat, mode),
                        LAMBDA st : RatLt(Rat(15, 100), st.position_rate)),
              "strategy_duration_rate"))

high_stat(backtest_stat, mode) ==
    SelectSeq(mode_stat(backtest_stat, mode),
              LAMBDA st : RatLt(rate_median(backtest_stat, mode),
                                  st.strategy_duration_rate))

HomeEntry(backtest_stat) ==
    LET high_fundamental_stat == high_stat(backtest_stat, "fundamental")
        high_bollinger_stat == high_stat(backtest_stat, "bollinger")
    IN  [ fundamental_rate |->
              mean_with_default(Field(high_fundamental_stat, "strategy_duration_rate")),
          bollinger_rate |->
              mean_with_default(Field(high_bollinger_stat, "strategy_duration_rate")),
          fundamental_buy_price |->
              mean_with_default(Field(high_fundamental_stat, "buy_threshold")),
          fundamental_sell_price |->
              mean_with_default(Field(high_fundamental_stat, "sell_threshold")),
          bollinger_buy_price |->
              mean_with_default(Field(high_bollinger_stat, "buy_threshold")),
          bollinger_sell_price |->
              mean_with_default(Field(high_bollinger_stat, "sell_threshold")) ]

\* one iteration of the loop over index_list
ExportIndex ==
    /\ call # NoCall
    /\ call.fn = "export_home_data"
    /\ call.state = "loop"
    /\ Len(call.result) < Len(call.index_list)
    /\ call' = [call EXCEPT
                  !.result = Append(@, HomeEntry(call.index_list[Len(call.result) + 1]))]
    /\ UNCHANGED <<df, df_test, strategies, log, stat, i, pc, result, batch>>

\* after the loop: no summary field is NaN, the entries are written as they
\* are
ExportDump ==
    /\ call # NoCall
    /\ call.fn = "export_home_data"
    /\ call.state = "loop"
    /\ Len(call.result) = Len(call.index_list)
    /\ call' = [call EXCEPT !.state = "returned"]
    /\ UNCHANGED <<df, df_test, strategies, log, stat, i, pc, result, batch>>

NextExport == ExportIndex \/ ExportDump

SpecExport == InitExport /\ [][NextExport]_vars

----------------------------------------------------------------------------
(* src/utils/__init__.py: retry                                             *)
(*                                                                          *)
(* One call of a wrapped function.  call.events lists the calls of func and *)
(* the sleeps in order, call.last is the exception of the latest failed     *)
(* call, call.e the local variable e of wrapper.                            *)

\* what a call of func does: it returns, raises an Exception, or raises a
\* BaseException that `except Exception` does not catch
Exceptions == {"ConnectionError", "ValueError"}
BaseExceptions == {"KeyboardInterrupt"}
FuncOutcomes == {"ok"} \cup Exceptions \cup BaseExceptions

Delays == {1, 5}

InitRetry ==
    /\ BacktestIdle
    /\ batch = NoBatch
    /\ \E max_attempts \in 0..MaxAttempts, delay \in Delays :
          call = [ fn |-> "retry", max_attempts |-> max_attempts,
                   delay |-> delay, attempts |-> 0, events |-> <<>>,
                   slept |-> 0, last |-> "none", e |-> "unbound",
                   state |-> "loop", result |-> "none" ]

\* if attempts < max_attempts: time.sleep(delay)
\* mutant: the wrapper sleeps after every failed attempt
SleepsAfter_Always(attempts, max_attempts) == TRUE

SleepsAfter(attempts, max_attempts) == attempts < max_attempts

\* one iteration of `while attempts < max_attempts`; `except Exception as e`
\* binds e for the except block only: e is unbound again when the block ends
RetryAttempt ==
    /\ call # NoCall
    /\ call.fn = "retry"
    /\ call.state = "loop"
    /\ call.attempts < call.max_attempts
    /\ \E outcome \in FuncOutcomes :
          call' =
            IF outcome = "ok"
            THEN [call EXCEPT !.events = Append(@, "call"),
                              !.state = "returned", !.result = "ok"]
            ELSE IF outcome \in BaseExceptions
            THEN [call EXCEPT !.events = Append(@, "call"),
                              !.last = outcome,
                              !.state = "raised", !.result = outcome]
            ELSE IF SleepsAfter(call.attempts + 1, call.max_attempts)
            THEN [call EXCEPT !.events = @ \o <<"call", "sleep">>,
                              !.slept = @ + call.delay,
                              !.attempts = @ + 1,
                              !.last = outcome, !.e = "unbound"]
            ELSE [call EXCEPT !.events = Append(@, "call"),
                              !.attempts = @ + 1,
                              !.last = outcome, !.e = "unbound"]
    /\ UNCHANGED <<df, df_test, strategies, log, stat, i, pc, result, batch>>

\* after the loop: raise e
RetryExhausted ==
    /\ call # NoCall
    /\ call.fn = "retry"
    /\ call.state = "loop"
    /\ ~(call.attempts < call.max_attempts)
    /\ call' = [call EXCEPT
                  !.state = "raised",
                  !.result = IF call.e = "unbound" THEN "UnboundLocalError"
                             ELSE call.e]
    /\ UNCHANGED <<df, df_test, strategies, log, stat, i, pc, result, batch>>

NextRetry == RetryAttempt \/ RetryExhausted

SpecRetry == InitRetry /\ [][NextRetry]_vars

\* the wrapper runs on: each call of func returns or raises
SpecRetryFair == SpecRetry /\ WF_vars(NextRetry)

----------------------------------------------------------------------------
(* modules/index_filter.py: filter_indices_by_criteria                      *)
(*                                                                          *)
(* An index of cn_index.json carries its launch date, its constituents and  *)
(* its tracking funds.  The launch date is held as the time from it to NOW  *)
(* in half days, the lists by their lengths; stockCode is the position of   *)
(* the index in the list.                                                   *)

MinYears == {3, 5}

\* NOW - launch_date around 365 * min_years days, in half days
LaunchAges == {2 * 365 * 3 - 1, 2 * 365 * 3, 2 * 365 * 5}

IndexKinds ==
    [ age : LaunchAges, constituent_weightings : {0, 1}, tracking_fund : {0, 2} ]

IndexLists ==
    UNION { { [k \in 1..n |->
                [ stockCode |-> k, age |-> kinds[k].age,
                  constituent_weightings |-> kinds[k].constituent_weightings,
                  tracking_fund |-> kinds[k].tracking_fund,
                  enable |-> None ]] :
              kinds \in [1..n -> IndexKinds] } : n \in 0..MaxIndices }

InitIndexFilter ==
    /\ BacktestIdle
    /\ batch = NoBatch
    /\ \E cn_index \in IndexLists, min_years \in MinYears :
          call = [ fn |-> "filter_indices_by_criteria", cn_index |-> cn_index,
                   min_years |-> min_years, k |-> 0, state |-> "loop",
                   result |-> <<>> ]

\* (NOW - launch_date).days: the whole days of the difference
days(age) == age \div 2

\* mutant: an index launched exactly 365 * min_years days ago is too young
TooYoung_Inclusive(index, min_years) == days(index.age) <= 365 * min_years

TooYoung(index, min_years) == days(index.age) < 365 * min_years

\* the value of index["enable"] after the loop body
Enabled(index, min_years) ==
    IF TooYoung(index, min_years) THEN FALSE
    ELSE IF index.constituent_weightings = 0 THEN FALSE
    ELSE IF index.tracking_fund = 0 THEN FALSE
    ELSE TRUE

\* one iteration of the loop over cn_index
CheckIndex ==
    /\ call # NoCall
    /\ call.fn = "filter_indices_by_criteria"
    /\ call.state = "loop"
    /\ call.k < Len(call.cn_index)
    /\ call' = [call EXCEPT
                  !.k = @ + 1,
                  !.cn_index[call.k + 1].enable =
                      Some(Enabled(call.cn_index[call.k + 1], call.min_years))]
    /\ UNCHANGED <<df, df_test, strategies, log, stat, i, pc, result, batch>>

\* filtered_indices = [item for item in cn_index if item["enable"]]
ReturnFiltered ==
    /\ call # NoCall
    /\ call.fn = "filter_indices_by_criteria"
    /\ call.state = "loop"
    /\ call.k = Len(call.cn_index)
    /\ call' = [call EXCEPT
                  !.state = "returned",
                  !.result = SelectSeq(call.cn_index, LAMBDA item : Get(item.enable))]
    /\ UNCHANGED <<df, df_test, strategies, log, stat, i, pc, result, batch>>

NextIndexFilter == CheckIndex \/ ReturnFiltered

SpecIndexFilter == InitIndexFilter /\ [][NextIndexFilter]_vars

----------------------------------------------------------------------------
(* daily.py and src/s91_export_home.py: export_home                         *)
(*                                                                          *)
(* Both versions run the same loop.  call.index_list holds the backtest_stat *)
(* of each index of the filtered list; an entry of the result carries       *)
(* backtest_avg, its other fields are copied from the last row of the       *)
(* frame.                                                                   *)

HomeVersions == {"daily", "src.s91_export_home"}

\* the statistics of one strategy that the export reads; a strategy that
\* never held a position has an annual_return of 0
HomeStats ==
    {[holding_days |-> 0, annual_return |-> RatInt(0)]} \cup
    [ holding_days : {10, 30}, annual_return : {Rat(-1, 10), Rat(1, 5)} ]

HomeStatLists ==
    UNION { [1..n -> HomeStats] : n \in 0..MaxStats }

InitHome ==
    /\ BacktestIdle
    /\ batch = NoBatch
    /\ \E version \in HomeVersions,
          index_list \in {<<>>} \cup {<<l>> : l \in HomeStatLists} :
          call = [ fn |-> "export_home", version |-> version,
                   index_list |-> index_list, state |-> "loop",
                   result |-> <<>> ]

\* sum(stat["holding_days"] for stat in backtest_stat)
RECURSIVE total_holding_days(_)
total_holding_days(backtest_stat) ==
    IF backtest_stat = <<>> THEN 0
    ELSE backtest_stat[1].holding_days + total_holding_days(Tail(backtest_stat))

\* stat["holding_days"] / total_holding_days raises when the total is 0
AverageRaises(backtest_stat) ==
    backtest_stat # <<>> /\ total_holding_days(backtest_stat) = 0

stat_weight(st, backtest_stat) ==
    Rat(st.holding_days, total_holding_days(backtest_stat))

\* backtest_avg after the first k strategies of the inner loop
RECURSIVE backtest_avg(_, _)
backtest_avg(backtest_stat, k) ==
    IF k = 0 THEN RatInt(0)
    ELSE RatAdd(backtest_avg(backtest_stat, k - 1),
                RatMul(stat_weight(backtest_stat[k], backtest_stat),
                       backtest_stat[k].annual_return))

\* one iteration of the loop over the filtered indices
HomeIndex ==
    /\ call # NoCall
    /\ call.fn = "export_home"
    /\ call.state = "loop"
    /\ Len(call.result) < Len(call.index_list)
    /\ LET backtest_stat == call.index_list[Len(call.result) + 1]
       IN  call' =
             IF AverageRaises(backtest_stat)
             THEN [call EXCEPT !.state = "ZeroDivisionError"]
             ELSE [call EXCEPT
                     !.result = Append(@,
                         [backtest_avg |->
                              backtest_avg(backtest_stat, Len(backtest_stat))])]
    /\ UNCHANGED <<df, df_test, strategies, log, stat, i, pc, result, batch>>

\* after the loop: backtest_avg is never NaN, the entries are written as
\* they are
HomeDump ==
    /\ call # NoCall
    /\ call.fn = "export_home"
    /\ call.state = "loop"
    /\ Len(call.result) = Len(call.index_list)
    /\ call' = [call EXCEPT !.state = "returned"]
    /\ UNCHANGED <<df, df_test, strategies, log, stat, i, pc, result, batch>>

NextHome == HomeIndex \/ HomeDump

SpecHome == InitHome /\ [][NextHome]_vars

----------------------------------------------------------------------------
(* modules/data_processor.py: calculate_technical_indicators                *)
(*                                                                          *)
(* call.df is a frame of closes: `plain` leading rows whose close depends   *)
(* on the position of the row, then the rows of `tail`, whose close may be  *)
(* missing.  call.result holds row call.i of the returned frame.            *)

ma_periods == {5, 10, 20, 30, 60, 120, 250}
bb_period == 20

\* the close of leading row k
PlainClose(k) == 10 + (k % 7)

TailCloses == {NaN, Some(8), Some(20)}

CloseTails == UNION { [1..n -> TailCloses] : n \in 0..MaxTail }

\* frames that end around the first row on which a moving average exists,
\* and one beyond the longest window
CloseFrames ==
    { [plain |-> plain, tail |-> tail] :
        plain \in {0, 251} \cup UNION { {w - 2, w - 1, w} : w \in ma_periods },
        tail \in CloseTails }

\* df['收盘价'] at row k
CloseAt(frame, k) ==
    IF k <= frame.plain THEN Some(PlainClose(k)) ELSE frame.tail[k - frame.plain]

\* the rows that are read: those around the first row of each moving
\* average and the last rows of the frame
IndicatorProbes(frame) ==
    {k \in UNION { {w - 1, w} : w \in ma_periods }
             \cup (frame.plain - 1)..FrameLen(frame) :
        1 <= k /\ k <= FrameLen(frame)}

InitIndicators ==
    /\ BacktestIdle
    /\ batch = NoBatch
    /\ \E frame \in CloseFrames :
          \E k \in (IF FrameLen(frame) = 0 THEN {0} ELSE IndicatorProbes(frame)) :
              call = [ fn |-> "calculate_technical_indicators", df |-> frame,
                       i |-> k, state |-> "called", result |-> <<>> ]

\* the sum over rows a..b of the closes raised to the power p (1 or 2), and
\* the sum over the window of w rows ending at row k
RECURSIVE SumRows(_, _, _, _)
SumRows(frame, a, b, p) ==
    IF a > b THEN 0
    ELSE IF a = b
    THEN LET c == Get(CloseAt(frame, a)) IN IF p = 1 THEN c ELSE c * c
    ELSE LET mid == (a + b) \div 2
         IN  SumRows(frame, a, mid, p) + SumRows(frame, mid + 1, b, p)

WindowSum(frame, w, k, p) == SumRows(frame, k - w + 1, k, p)

\* rolling(window=w) has min_periods = w: the value is missing until w
\* closes are there, and when a close of the window is missing
WindowFull(frame, w, k) ==
    /\ k >= w
    /\ \A j \in (k - w + 1)..k : ~isna(CloseAt(frame, j))

\* mutant: the window is the w rows that end one row later
rolling_mean_Ahead(frame, w, k) ==
    IF k + 1 <= FrameLen(frame) /\ WindowFull(frame, w, k + 1)
    THEN Some(Rat(WindowSum(frame, w, k + 1, 1), w))
    ELSE NaN

\* df['收盘价'].rolling(window=w).mean() at row k
rolling_mean(frame, w, k) ==
    IF WindowFull(frame, w, k)
    THEN Some(Rat(WindowSum(frame, w, k, 1), w))
    ELSE NaN

\* the square of df['收盘价'].rolling(window=w).std() at row k (the sample
\* variance; the standard deviation itself is irrational in general)
rolling_var(frame, w, k) ==
    IF WindowFull(frame, w, k)
    THEN LET s1 == WindowSum(frame, w, k, 1)
             s2 == WindowSum(frame, w, k, 2)
         IN  Some(Rat(w * s2 - s1 * s1, w * (w - 1)))
    ELSE NaN

\* (close - lower) / (upper - lower) with upper, lower = middle +- 2 std is
\* 1/2 + z/4 for z = (close - middle) / std; z is held by its sign and its
\* square.  With std = 0 the quotient is 0/0, NaN.
bb_position(frame, k) ==
    LET middle == rolling_mean(frame, bb_period, k)
        var == rolling_var(frame, bb_period, k)
    IN  IF isna(middle) \/ isna(var) \/ isna(CloseAt(frame, k)) THEN NaN
        ELSE IF Get(var).n = 0 THEN NaN
        ELSE LET d == RatSub(RatInt(Get(CloseAt(frame, k))), Get(middle))
             IN  Some([ sign |-> IF d.n > 0 THEN 1 ELSE IF d.n < 0 THEN -1 ELSE 0,
                        square |-> RatDiv(RatMul(d, d), Get(var)) ])

\* row k of the returned frame
IndicatorRow(frame, k) ==
    [ ma |-> [w \in ma_periods |-> rolling_mean(frame, w, k)],
      bb_middle |-> rolling_mean(frame, bb_period, k),
      bb_var |-> rolling_var(frame, bb_period, k),
      bb_position |-> bb_position(frame, k) ]

calculate_technical_indicators ==
    /\ call # NoCall
    /\ call.fn = "calculate_technical_indicators"
    /\ call.state = "called"
    /\ call' = [call EXCEPT
                  !.state = "returned",
                  !.result = IF call.i = 0 THEN <<>>
                             ELSE IndicatorRow(call.df, call.i)]
    /\ UNCHANGED <<df, df_test, strategies, log, stat, i, pc, result, batch>>

NextIndicators == calculate_technical_indicators

SpecIndicators == InitIndicators /\ [][NextIndicators]_vars

----------------------------------------------------------------------------
(* modules/data_processor.py: process_index_data                            *)
(*                                                                          *)
(* call.df is index_info["dataframe"]: its rows carry an index label and    *)
(* the values of its columns.  "close", "pe", "pb" and "dyr" stand for the  *)
(* columns '收盘价', '市盈率', '市净率' and '股息率' of a stored frame; a     *)
(* frame as fetched carries the key columns 'pe_ttm.mcw', 'pb.mcw' and      *)
(* 'dyr.mcw' instead.                                                       *)

process_required_columns == {"close"} \cup valuation_columns

\* the column sets of the frames handed to the function: a stored frame, a
\* stored frame without its dividend yield, a frame as fetched
ProcessColumnSets ==
    { process_required_columns,
      process_required_columns \ {"dyr"},
      {"close"} \cup key_columns }

\* rows with a fresh index, a close that depends on the position and
\* valuation fields present or missing
RECURSIVE ProcessRows(_, _)
ProcessRows(cols, n) ==
    IF n = 0 THEN {<<>>}
    ELSE { Append(rows, [index |-> n - 1, date |-> n,
                         values |-> [c \in cols |->
                                        IF c = "close" THEN Some(10 + n) ELSE v[c]]]) :
             rows \in ProcessRows(cols, n - 1),
             v \in [cols \ {"close"} -> {NaN, Some(1)}] }

ProcessFrames ==
    UNION { { [columns |-> cols, rows |-> rows] :
                rows \in UNION {ProcessRows(cols, n) : n \in 0..MaxBars} } :
            cols \in ProcessColumnSets }

InitProcess ==
    /\ BacktestIdle
    /\ batch = NoBatch
    /\ \E frame \in ProcessFrames :
          call = [ fn |-> "process_index_data", df |-> frame,
                   state |-> "called", result |-> <<>> ]

\* the filtered rows as the frame of closes read by
\* calculate_technical_indicators and as the frame of valuations read by
\* calculate_valuation_percentiles
AsCloseFrame(rows) ==
    [plain |-> 0, tail |-> [k \in 1..Len(rows) |-> rows[k].values["close"]]]

AsValuationFrame(rows) ==
    [ columns |-> valuation_columns, plain |-> 0,
      tail |-> [k \in 1..Len(rows) |->
                   [c \in valuation_columns |-> rows[k].values[c]]] ]

\* the frame the function stores: the rows left by the filter, each with
\* its indicators and its percentiles
ProcessedRows(rows) ==
    [k \in 1..Len(rows) |->
        [ index |-> rows[k].index, date |-> rows[k].date, values |-> rows[k].values,
          indicators |-> IndicatorRow(AsCloseFrame(rows), k),
          percentiles |-> PercentileRow(AsValuationFrame(rows), k) ]]

process_index_data ==
    /\ call # NoCall
    /\ call.fn = "process_index_data"
    /\ call.state = "called"
    /\ \E filtered \in {filter_modules(call.df).result} :
          call' =
            IF ~(process_required_columns \subseteq call.df.columns)
            THEN [call EXCEPT !.state = "KeyError"]
            ELSE [call EXCEPT !.state = "returned",
                              !.result = ProcessedRows(filtered)]
    /\ UNCHANGED <<df, df_test, strategies, log, stat, i, pc, result, batch>>

NextProcess == process_index_data

SpecProcess == InitProcess /\ [][NextProcess]_vars

----------------------------------------------------------------------------
(* src/utils/__init__.py: get_dates_ranges                                  *)
(*                                                                          *)
(* A datetime is a number of half days, so that a launch at midnight and an *)
(* end at noon can be told apart; strftime("%Y-%m-%d") keeps the calendar   *)
(* day of a datetime.                                                       *)

HalfDaysPerDay == 2

\* datetime.strftime("%Y-%m-%d"), as the number of the calendar day
calendar_day(t) == t \div HalfDaysPerDay

\* timedelta(days=n)
timedelta(n) == n * HalfDaysPerDay

RangeYears == {1, 5}

\* launches at midnight and at noon; ends from just before the launch to
\* just after MaxRanges full ranges
RangeInputs ==
    UNION { { [launch |-> launch, years |-> years,
               end |-> launch + k * timedelta(365 * years + 1) + d] :
                k \in 0..MaxRanges, d \in -2..2 } :
            launch \in {10, 11}, years \in RangeYears }

InitRanges ==
    /\ BacktestIdle
    /\ batch = NoBatch
    /\ \E in \in RangeInputs :
          call = [ fn |-> "get_dates_ranges", launch |-> in.launch,
                   launch_datetime |-> in.launch, end_datetime |-> in.end,
                   years |-> in.years, date_ranges |-> <<>>,
                   state |-> "called" ]

Min(a, b) == IF a <= b THEN a ELSE b

\* if launch_datetime > end_datetime: raise ValueError
RangesCheck ==
    /\ call # NoCall
    /\ call.fn = "get_dates_ranges"
    /\ call.state = "called"
    /\ call' = [call EXCEPT
                  !.state = IF call.launch_datetime > call.end_datetime
                            THEN "ValueError" ELSE "loop"]
    /\ UNCHANGED <<df, df_test, strategies, log, stat, i, pc, result, batch>>

\* while launch_datetime < end_datetime
RangesContinue(launch_datetime, end_datetime) == launch_datetime < end_datetime

\* one iteration of the loop
RangesStep ==
    /\ call # NoCall
    /\ call.fn = "get_dates_ranges"
    /\ call.state = "loop"
    /\ RangesContinue(call.launch_datetime, call.end_datetime)
    /\ \E _end_datetime \in { Min(call.launch_datetime + timedelta(365 * call.years),
                                  call.end_datetime) } :
          call' = [call EXCEPT
                     !.date_ranges = Append(@, << calendar_day(call.launch_datetime),
                                                  calendar_day(_end_datetime) >>),
                     !.launch_datetime = _end_datetime + timedelta(1)]
    /\ UNCHANGED <<df, df_test, strategies, log, stat, i, pc, result, batch>>

\* return date_ranges
RangesReturn ==
    /\ call # NoCall
    /\ call.fn = "get_dates_ranges"
    /\ call.state = "loop"
    /\ ~RangesContinue(call.launch_datetime, call.end_datetime)
    /\ call' = [call EXCEPT !.state = "returned"]
    /\ UNCHANGED <<df, df_test, strategies, log, stat, i, pc, result, batch>>

NextRanges == RangesCheck \/ RangesStep \/ RangesReturn

SpecRanges == InitRanges /\ [][NextRanges]_vars

----------------------------------------------------------------------------
(* modules/index_data_fetcher.py: update_index_info                         *)
(*                                                                          *)
(* cn_company is a list of dicts shared by every worker thread; a company   *)
(* dict is held by reference, so cn_company maps a stock code to the        *)
(* current "weighting" entry of its one dict, and a constituent list is a   *)
(* sequence of stock codes referring to those dicts.                        *)

ListedCompanies == {"c1", "c2"}

\* stock codes the constituent API may return; "c0" is not in cn_company
ApiCompanies == ListedCompanies \cup {"c0"}

Weightings == {1, 2}

\* constituent_weightings_dict of one index, in insertion order
ConstituentDicts ==
    { << <<c, w>> >> : c \in ApiCompanies, w \in Weightings }
    \cup UNION { { << <<c, w>>, <<c2, w2>> >> :
                      c2 \in ListedCompanies \ {c}, w2 \in Weightings } :
                 c \in ListedCompanies, w \in Weightings }

InitFetch ==
    /\ BacktestIdle
    /\ batch = NoBatch
    /\ \E n \in 1..MaxFetch :
       \E api \in [1..n -> ConstituentDicts] :
          call = [ fn |-> "update_index_info", cn_index |-> 1..n, api |-> api,
                   cn_company |-> [c \in ListedCompanies |-> None],
                   thread |-> [x \in 1..n |->
                                 [pc |-> "submitted", k |-> 1, list |-> <<>>]],
                   constituent_weightings |-> [x \in 1..n |-> <<>>],
                   results |-> <<>>, collected |-> {}, logged |-> {},
                   file |-> None, state |-> "running" ]

FetchCall == call # NoCall /\ call.fn = "update_index_info"

FetchFrame == UNCHANGED <<df, df_test, strategies, log, stat, i, pc, result, batch>>

\* fetch_index_constituent up to the dict of weightings: the API call, with
\* its retries, returns the data or raises
FetchConstituent ==
    /\ FetchCall
    /\ \E x \in call.cn_index :
          /\ call.thread[x].pc = "submitted"
          /\ \E ok \in BOOLEAN :
                call' = [call EXCEPT !.thread[x].pc = IF ok THEN "tag" ELSE "raised"]
    /\ FetchFrame

\* find_dict_by_field(cn_company, "stockCode", key)
find_dict_by_field(key) == IF key \in ListedCompanies THEN Some(key) ELSE None

\* company["weighting"] = value, on the shared dict
TagOf(c, key, value) == [c EXCEPT !.cn_company[key] = Some(value)]

\* one iteration of the loop over constituent_weightings_dict.items()
TagCompany ==
    /\ FetchCall
    /\ \E x \in call.cn_index :
          /\ call.thread[x].pc = "tag"
          /\ call.thread[x].k <= Len(call.api[x])
          /\ LET key     == call.api[x][call.thread[x].k][1]
                 value   == call.api[x][call.thread[x].k][2]
                 company == find_dict_by_field(key)
             IN  call' = IF company # None
                         THEN [TagOf(call, key, value) EXCEPT
                                  !.thread[x].k = @ + 1,
                                  !.thread[x].list = Append(@, Get(company))]
                         ELSE [call EXCEPT !.thread[x].k = @ + 1]
    /\ FetchFrame

\* list.sort(key=..., reverse=True): stable, larger keys first
RECURSIVE SortDescending(_, _)
SortDescending(list, key) ==
    IF list = <<>> THEN <<>>
    ELSE LET rest == SortDescending(Tail(list), key)
             h    == Head(list)
             p    == Cardinality({ q \in 1..Len(rest) : key[rest[q]] > key[h] })
         IN  SubSeq(rest, 1, p) \o <<h>> \o SubSeq(rest, p + 1, Len(rest))

\* the sort at the end of fetch_index_constituent, reading the weighting
\* each dict holds at that moment, and the assignment to
\* index["constituent_weightings"] (the lists here are shorter than 30)
StoreConstituents ==
    /\ FetchCall
    /\ \E x \in call.cn_index :
          /\ call.thread[x].pc = "tag"
          /\ call.thread[x].k > Len(call.api[x])
          /\ call' = [call EXCEPT
                        !.thread[x].pc = "fund",
                        !.constituent_weightings[x] =
                            SortDescending(call.thread[x].list,
                                           [c \in ListedCompanies |->
                                               IF call.cn_company[c] = None THEN 0
                                               ELSE Get(call.cn_company[c])])]
    /\ FetchFrame

\* index["tracking_fund"] = fetch_index_tracking_fund(stockCode): returns
\* or raises
FetchTrackingFund ==
    /\ FetchCall
    /\ \E x \in call.cn_index :
          /\ call.thread[x].pc = "fund"
          /\ \E ok \in BOOLEAN :
                call' = [call EXCEPT !.thread[x].pc = IF ok THEN "done" ELSE "raised"]
    /\ FetchFrame

\* mutant: a failed future is appended to the results as well
CollectFailure_Appends(c, x) == [c EXCEPT !.results = Append(@, x)]

\* except Exception as e: logging.error(...)
CollectFailure(c, x) == [c EXCEPT !.logged = @ \cup {x}]

\* one iteration of the loop over as_completed(future_to_index)
Collect ==
    /\ FetchCall
    /\ \E x \in call.cn_index :
          /\ call.state = "running"
          /\ x \notin call.collected
          /\ call.thread[x].pc \in {"done", "raised"}
          /\ call' = [(IF call.thread[x].pc = "done"
                       THEN [call EXCEPT !.results = Append(@, x)]
                       ELSE CollectFailure(call, x))
                      EXCEPT !.collected = @ \cup {x}]
    /\ FetchFrame

\* json.dump of one index: its constituent list with the weighting each
\* company dict holds when the file is written
IndexRecord(c, x) ==
    [ stockCode |-> x,
      constituent_weightings |->
          [p \in 1..Len(c.constituent_weightings[x]) |->
              [stockCode |-> c.constituent_weightings[x][p],
               weighting |-> Get(c.cn_company[c.constituent_weightings[x][p]])]] ]

\* json.dump(results, f), after every future has been collected
WriteIndexFile ==
    /\ FetchCall
    /\ call.state = "running"
    /\ call.collected = call.cn_index
    /\ call' = [call EXCEPT
                  !.state = "completed",
                  !.file = Some([p \in 1..Len(call.results) |->
                                    IndexRecord(call, call.results[p])])]
    /\ FetchFrame

NextFetch ==
    \/ FetchConstituent
    \/ TagCompany
    \/ StoreConstituents
    \/ FetchTrackingFund
    \/ Collect
    \/ WriteIndexFile

SpecFetch == InitFetch /\ [][NextFetch]_vars

----------------------------------------------------------------------------
(* daily.py: main                                                           *)
(*                                                                          *)
(* The five stages run one after the other over cn_index_filtered.json and  *)
(* hand their results on through one pickle per index.  call.pickle holds,  *)
(* for each index, whether the file exists, whether its frame carries the   *)
(* indicator columns, and its backtest_stat if it has one.                  *)

DailyStages ==
    <<"fetch_data", "calculate_index", "backtest_index", "export_to_js",
      "export_home">>

\* what backtest_single_index returns for a frame with the indicator
\* columns: nothing for too little history, else the strategies' statistics
DailyStatLists ==
    { <<>>,
      << [holding_days |-> 0, annual_return |-> RatInt(0)] >>,
      << [holding_days |-> 10, annual_return |-> Rat(1, 5)] >> }

\* the record fetch_index dumps: the json record and the frame
FreshPickle == Some([indicators |-> FALSE, backtest_stat |-> None])

\* a file left by an earlier run
StalePickle ==
    Some([indicators |-> TRUE,
          backtest_stat |-> Some(<< [holding_days |-> 10,
                                     annual_return |-> Rat(1, 5)] >>)])

InitDaily ==
    /\ BacktestIdle
    /\ batch = NoBatch
    /\ \E n \in 1..MaxIndices :
       \E pickle \in [1..n -> {None, StalePickle}] :
          call = [ fn |-> "daily.main", n |-> n, pickle |-> pickle,
                   stage |-> 1, k |-> 1, caught |-> {}, js |-> {},
                   result |-> <<>>, home |-> None, state |-> "running" ]

DailyAt(stage) ==
    /\ call # NoCall
    /\ call.fn = "daily.main"
    /\ call.state = "running"
    /\ DailyStages[call.stage] = stage
    /\ call.k <= call.n

DailyFrame == UNCHANGED <<df, df_test, strategies, log, stat, i, pc, result, batch>>

\* except Exception as e: logging.error(...), and on to the next index
Caught(c) == [c EXCEPT !.caught = @ \cup {<<DailyStages[c.stage], c.k>>}, !.k = @ + 1]

\* fetch_data: the future of one index; fetch_index dumps the pickle as its
\* last step, so a fetch that raises leaves the file as it was
FetchIndex ==
    /\ DailyAt("fetch_data")
    /\ \E ok \in BOOLEAN :
          call' = IF ok
                  THEN [call EXCEPT !.pickle[call.k] = FreshPickle, !.k = @ + 1]
                  ELSE Caught(call)
    /\ DailyFrame

\* calculate_index: one iteration; the pickle is dumped after the columns
\* are computed
CalculateIndex ==
    /\ DailyAt("calculate_index")
    /\ \E ok \in BOOLEAN :
          call' = IF call.pickle[call.k] # None /\ ok
                  THEN [call EXCEPT
                          !.pickle[call.k] =
                              Some([Get(@) EXCEPT !.indicators = TRUE]),
                          !.k = @ + 1]
                  ELSE Caught(call)
    /\ DailyFrame

\* backtest_index: one iteration; a frame without the indicator columns
\* returns no statistics when it is too short, and raises KeyError otherwise
BacktestIndex ==
    /\ DailyAt("backtest_index")
    /\ \E backtest_stat \in DailyStatLists :
          call' = IF /\ call.pickle[call.k] # None
                     /\ \/ Get(call.pickle[call.k]).indicators
                        \/ backtest_stat = <<>>
                  THEN [call EXCEPT
                          !.pickle[call.k] =
                              Some([Get(@) EXCEPT
                                      !.backtest_stat = Some(backtest_stat)]),
                          !.k = @ + 1]
                  ELSE Caught(call)
    /\ DailyFrame

\* export_to_js: one iteration, outside any try
ExportToJs ==
    /\ DailyAt("export_to_js")
    /\ call' = IF call.pickle[call.k] = None
               THEN [call EXCEPT !.state = "FileNotFoundError"]
               ELSE [call EXCEPT !.js = @ \cup {call.k}, !.k = @ + 1]
    /\ DailyFrame

\* index_info["backtest_stat"]: nothing when the key is absent
ReadBacktestStat(index_info) == index_info.backtest_stat

\* export_home: one iteration of the loop over the indices, outside any try
ExportHomeIndex ==
    /\ DailyAt("export_home")
    /\ call' =
          IF call.pickle[call.k] = None
          THEN [call EXCEPT !.state = "FileNotFoundError"]
          ELSE LET backtest_stat == ReadBacktestStat(Get(call.pickle[call.k]))
               IN  IF backtest_stat = None
                   THEN [call EXCEPT !.state = "KeyError"]
                   ELSE IF AverageRaises(Get(backtest_stat))
                   THEN [call EXCEPT !.state = "ZeroDivisionError"]
                   ELSE [call EXCEPT
                           !.result = Append(@,
                               [index |-> call.k,
                                backtest_avg |->
                                    backtest_avg(Get(backtest_stat),
                                                 Len(Get(backtest_stat)))]),
                           !.k = @ + 1]
    /\ DailyFrame

\* a stage has gone through the list: main calls the next one
NextStage ==
    /\ call # NoCall
    /\ call.fn = "daily.main"
    /\ call.state = "running"
    /\ call.k > call.n
    /\ call.stage < Len(DailyStages)
    /\ call' = [call EXCEPT !.stage = @ + 1, !.k = 1]
    /\ DailyFrame

\* export_home after its loop: home.json is written and main returns
DumpHome ==
    /\ call # NoCall
    /\ call.fn = "daily.main"
    /\ call.state = "running"
    /\ call.k > call.n
    /\ call.stage = Len(DailyStages)
    /\ call' = [call EXCEPT !.home = Some(call.result), !.state = "returned"]
    /\ DailyFrame

NextDaily ==
    \/ FetchIndex
    \/ CalculateIndex
    \/ BacktestIndex
    \/ ExportToJs
    \/ ExportHomeIndex
    \/ NextStage
    \/ DumpHome

SpecDaily == InitDaily /\ [][NextDaily]_vars

\* main runs on while it can
SpecDailyFair == SpecDaily /\ WF_vars(NextDaily)

----------------------------------------------------------------------------
(* Vocabulary of the properties, in terms of the bars of the evaluation set *)

SellDirections == {"stop_loss_sell", "take_profit_sell", "force_sell"}

\* the events appended to the log by the step
NewEvents == SubSeq(log', Len(log) + 1, Len(log'))

\* the events of one strategy among evs, in order
EventsOf(name, evs) == SelectSeq(evs, LAMBDA e : e.strategy_name = name)

\* the indicator of a mode on a bar
IndicatorOf(mode, bar) ==
    IF mode = "fundamental" THEN bar.valuation_percentile ELSE bar.bollinger_position

\* row j of the evaluation set is stepped by the loop: it has a previous row
\* with a valuation percentile and a next row with an opening price
Evaluated(j) ==
    /\ 1 < j /\ j < Len(df_test)
    /\ df_test[j - 1].valuation_percentile # NaN
    /\ df_test[j + 1].open # NaN

\* prev < threshold <= curr on the indicator of mode, between rows j-1 and j
Crosses(mode, threshold, j) ==
    /\ 1 < j
    /\ IndicatorOf(mode, df_test[j - 1]) # NaN
    /\ IndicatorOf(mode, df_test[j]) # NaN
    /\ IndicatorOf(mode, df_test[j - 1])[1] < threshold
    /\ threshold <= IndicatorOf(mode, df_test[j])[1]

\* the row loop is about to step row i
InLoop == pc = "loop"

----------------------------------------------------------------------------
\* what C1 asks of one step
C1_Step ==
    pc \in {"loop", "force", "stats"} =>
        \A k \in 1..Len(strategies) :
            LET sells == SelectSeq(EventsOf(strategies[k].name, NewEvents),
                                   LAMBDA e : e.direction \in SellDirections)
            IN  IF sells # <<>>
                THEN /\ Len(sells) = 1
                     /\ strategies'[k].capital =
                            RatMul(strategies[k].shares, RatInt(sells[1].price))
                     /\ sells[1].cash = strategies'[k].capital
                ELSE strategies'[k].capital = strategies[k].capital

(* C1: for every strategy, a step that appends a sell event of any kind     *)
(* (stop_loss_sell, take_profit_sell, force_sell) leaves capital equal to   *)
(* the shares held before the step times the event's price, and a step      *)
(* without a sell event of the strategy (a buy, a day without an event, the *)
(* stats) leaves its capital unchanged.                                     *)
C1_CapitalChangesOnlyBySale == [][C1_Step]_vars

\* a run that returned with a take-profit sale at a gain and a forced sale
C1_Witness ==
    /\ pc = "returned"
    /\ \E a, b \in 1..Len(log) :
          /\ log[a].direction = "take_profit_sell"
          /\ log[b].direction = "force_sell"
    /\ \E k \in 1..Len(strategies) : strategies[k].capital # RatInt(InitialCapital)

----------------------------------------------------------------------------
\* what C2 asks of the step of an evaluated day
C2_Step ==
    (InLoop /\ Evaluated(i)) =>
        \A k \in 1..Len(strategies) :
            LET st == strategies[k]
                evs == EventsOf(st.name, NewEvents)
                price == df_test[i + 1].open[1]
            IN  (~st.position /\ Crosses(st.mode, st.buy_threshold, i)) =>
                    /\ strategies'[k].position
                    /\ strategies'[k].buy_price = price
                    /\ strategies'[k].position_date = Some(df_test[i].date)
                    /\ strategies'[k].shares = Rat(st.capital.n, st.capital.d * price)
                    /\ Len(evs) = 1
                    /\ evs[1].direction = "buy"
                    /\ evs[1].amount = st.capital
                    /\ evs[1].price = price

(* C2: on an evaluated day T a FLAT strategy whose mode indicator satisfies *)
(* prev < buy_threshold <= curr becomes LONG with entry price the open of   *)
(* day T+1, entry date T, shares = capital / entry price, and exactly one   *)
(* 'buy' event of the strategy is appended, with amount the capital before  *)
(* the trade and price the open of day T+1.                                 *)
C2_BuyOnCrossing == [][C2_Step]_vars

\* a strategy has just bought at 85 with its whole initial capital
C2_Witness ==
    /\ pc = "loop"
    /\ \E k \in 1..Len(strategies) :
          /\ strategies[k].position
          /\ strategies[k].buy_price = 85
          /\ strategies[k].shares = Rat(InitialCapital, 85)
          /\ log # <<>>
          /\ log[Len(log)].direction = "buy"

----------------------------------------------------------------------------
\* what C3 asks of the steps after the row loop
C3_Step ==
    /\ pc = "force" =>
          \A k \in 1..Len(strategies) :
              LET st == strategies[k]
                  evs == EventsOf(st.name, NewEvents)
                  last == df_test[Len(df_test)]
                  price == IF last.next_open # NaN THEN last.next_open[1]
                           ELSE last.close[1]
              IN  IF st.position
                  THEN /\ Len(evs) = 1
                       /\ evs[1].direction = "force_sell"
                       /\ evs[1].price = price
                       /\ evs[1].date = strftime(last.date)
                       /\ evs[1].amount = RatMul(st.shares, RatInt(price))
                       /\ strategies'[k].capital = RatMul(st.shares, RatInt(price))
                       /\ strategies'[k].total_holding_days =
                              st.total_holding_days + (last.date - st.position_date[1])
                       /\ ~strategies'[k].position
                  ELSE evs = <<>> /\ strategies'[k] = st
    /\ pc = "stats" => (log' = log /\ strategies' = strategies)

(* C3: after the row loop every strategy still LONG is closed exactly once  *)
(* by a 'force_sell' event (never take_profit_sell or stop_loss_sell),      *)
(* priced at the final row's next-day open if present and else at its       *)
(* close, dated with the final row's date, with capital and                 *)
(* total_holding_days updated as in a normal exit; a FLAT strategy gets no  *)
(* event, and nothing is sold after that.                                   *)
C3_ForcedLiquidation == [][C3_Step]_vars

\* a position was force-sold at the final row's close after being held
C3_Witness ==
    /\ pc = "stats"
    /\ \E a \in 1..Len(log), k \in 1..Len(strategies) :
          /\ log[a].direction = "force_sell"
          /\ log[a].price = df_test[Len(df_test)].close[1]
          /\ log[a].strategy_name = strategies[k].name
          /\ strategies[k].total_holding_days > 0

----------------------------------------------------------------------------
\* the bars of the frame dated on or after 2016-01-01; the frame is in date
\* order, so they are its last bars
PostCutoff(rows) == {j \in 1..Len(rows) : rows[j].date >= start_date}

SameBar(a, b) ==
    /\ a.date = b.date
    /\ a.valuation_percentile = b.valuation_percentile
    /\ a.bollinger_position = b.bollinger_position
    /\ a.open = b.open
    /\ a.close = b.close

\* what C4 asks of the first step
C4_Step ==
    pc = "start" =>
        LET rows == Rows(df)
            nPost == Cardinality(PostCutoff(rows))
        IN  /\ nPost <= 250 =>
                  /\ pc' = "returned" /\ result' = Returned
                  /\ log' = <<>> /\ stat' = <<>>
            /\ nPost > 250 =>
                  /\ Len(df_test') = nPost - 250
                  /\ \A k \in 1..Len(df_test') :
                        SameBar(df_test'[k], rows[Len(rows) - nPost + 250 + k])

(* C4: with 250 or fewer bars dated on or after 2016-01-01 the call returns *)
(* an empty log and empty stats without raising; with more than 250 the     *)
(* evaluation set is exactly the post-cutoff bars after the first 250, in   *)
(* the same order.                                                          *)
C4_WindowSelection == [][C4_Step]_vars

\* an evaluation set of three bars that starts at the 251st post-cutoff bar
C4_Witness ==
    /\ pc = "loop" /\ i = 1
    /\ Len(df_test) = 3
    /\ df_test[1].date = PostDate(251)
    /\ df.pre > 0

----------------------------------------------------------------------------
\* the frame has exactly 251 bars dated on or after 2016-01-01, every column,
\* and every indicator and price of its last bar present
Has251CompleteBars ==
    /\ df.columns = AllColumns
    /\ df.plain + Len(df.tail) = 251
    /\ \A k \in 1..Len(df.tail) :
          /\ df.tail[k].valuation_percentile # NaN
          /\ df.tail[k].bollinger_position # NaN
          /\ df.tail[k].open # NaN

(* C5: for a frame with exactly 251 bars dated on or after 2016-01-01, all  *)
(* indicators and prices present, the call evaluates exactly one day (every *)
(* strategy is stepped on one date) and returns normally with its log and   *)
(* stats.                                                                   *)
C5_OneEvaluatedDay ==
    (Has251CompleteBars /\ pc \in {"returned", "raised"}) =>
        /\ pc = "returned"
        /\ \A k \in 1..Len(strategies) :
              /\ strategies[k].date_start # None
              /\ strategies[k].date_start = strategies[k].date_end

----------------------------------------------------------------------------
\* what C6 asks of the step of an evaluated day
C6_Step ==
    (InLoop /\ Evaluated(i)) =>
        \A k \in 1..Len(strategies) :
            LET st == strategies[k]
                evs == EventsOf(st.name, NewEvents)
                price == df_test[i + 1].open[1]
                stopLoss == 100 * (price - st.buy_price) <= -15 * st.buy_price
                crossing == Crosses(st.mode, st.sell_threshold, i)
            IN  st.position =>
                    IF stopLoss \/ crossing
                    THEN /\ ~strategies'[k].position
                         /\ Len(evs) = 1
                         /\ evs[1].price = price
                         /\ evs[1].direction =
                                IF stopLoss THEN "stop_loss_sell" ELSE "take_profit_sell"
                    ELSE /\ strategies'[k].position
                         /\ evs = <<>>

(* C6: on an evaluated day a LONG strategy is closed at the next-day open   *)
(* if and only if (next_open - entry_price) / entry_price <= -0.15 or its   *)
(* own mode indicator crosses the sell threshold upwards; the event is      *)
(* 'stop_loss_sell' whenever the stop-loss condition holds (also when the   *)
(* crossing holds on the same day) and 'take_profit_sell' only when the     *)
(* crossing holds and the stop-loss condition does not.                     *)
C6_SellRule == [][C6_Step]_vars

\* a sale at exactly -15% on a day the sell threshold was crossed too
C6_Witness ==
    /\ pc = "force"
    /\ Len(df_test) = 4
    /\ Crosses("fundamental", 40, 3)
    /\ \E a \in 1..Len(log) :
          /\ log[a].direction = "stop_loss_sell"
          /\ log[a].strategy_name = "10-40 valuation"
          /\ log[a].price = 85

----------------------------------------------------------------------------
\* what C7 asks of the step of a day
C7_Step ==
    InLoop =>
        \A k \in 1..Len(strategies) :
            LET st == strategies[k]
                evs == EventsOf(st.name, NewEvents)
            IN  /\ Len(evs) <= 1
                /\ \A a \in 1..Len(evs) :
                      IF st.position THEN evs[a].direction # "buy"
                      ELSE evs[a].direction = "buy"

(* C7: for every strategy and every day at most one trade event is          *)
(* emitted: a day on which a FLAT strategy buys never also emits a sell of  *)
(* that strategy (even if the sell threshold is crossed that day), and a    *)
(* day on which a LONG strategy sells never also emits a buy of it.         *)
C7_OneEventPerDay == [][C7_Step]_vars

\* the strategy 10-40 bought on a day its sell threshold was crossed as well
C7_Witness ==
    /\ pc = "loop" /\ i = 3
    /\ Crosses("fundamental", 10, 2) /\ Crosses("fundamental", 40, 2)
    /\ strategies[1].position
    /\ strategies[1].position_date = Some(df_test[2].date)

----------------------------------------------------------------------------
\* the thresholds and modes of the strategy table
Thresholds ==
    {StrategyTable[k][1] : k \in 1..Len(StrategyTable)}
        \cup {StrategyTable[k][2] : k \in 1..Len(StrategyTable)}
Modes == {"fundamental", "bollinger"}

\* df_test carries its shifted columns
Shifted == pc \in {"loop", "force", "stats"}

AtOrAbove(mode, threshold, j) ==
    /\ IndicatorOf(mode, df_test[j]) # NaN
    /\ IndicatorOf(mode, df_test[j])[1] >= threshold

\* rows a..b are a maximal run of days at or above the threshold
IsRun(mode, threshold, a, b) ==
    /\ 1 <= a /\ a <= b /\ b <= Len(df_test)
    /\ \A j \in a..b : AtOrAbove(mode, threshold, j)
    /\ a = 1 \/ ~AtOrAbove(mode, threshold, a - 1)
    /\ b = Len(df_test) \/ ~AtOrAbove(mode, threshold, b + 1)

\* the loop steps row j and computes the crossing of the threshold as true
SignalFires(mode, threshold, j) ==
    /\ ~SkipDay(df_test[j])
    /\ CrossedUp(ModeIndicator([mode |-> mode], df_test[j])[1],
                 ModeIndicator([mode |-> mode], df_test[j])[2], threshold)

(* C8 as claimed: a contiguous run of days on which the indicator is at or  *)
(* above the threshold triggers the crossing signal exactly once, on the    *)
(* first day of the run.                                                    *)
C8_ExactlyOncePerRun ==
    Shifted =>
        \A mode \in Modes, threshold \in Thresholds :
            \A a, b \in 1..Len(df_test) :
                IsRun(mode, threshold, a, b) =>
                    {j \in a..b : SignalFires(mode, threshold, j)} = {a}

(* C8 amended: a contiguous run of days on which the indicator is at or     *)
(* above the threshold triggers the crossing signal at most once and only   *)
(* on the first day of the run; it triggers on that first day exactly when  *)
(* the day is evaluated (the previous day's valuation percentile and the    *)
(* next day's open are present) and the previous day's value of the         *)
(* indicator itself is present.                                             *)
C8_AtMostOncePerRun ==
    Shifted =>
        \A mode \in Modes, threshold \in Thresholds :
            \A a, b \in 1..Len(df_test) :
                IsRun(mode, threshold, a, b) =>
                    /\ {j \in a..b : SignalFires(mode, threshold, j)} \subseteq {a}
                    /\ SignalFires(mode, threshold, a) <=>
                          (Evaluated(a) /\ IndicatorOf(mode, df_test[a - 1]) # NaN)

\* a run of two days above 40 that fired on its first day
C8_Witness ==
    /\ pc = "loop"
    /\ Len(df_test) = 4
    /\ IsRun("bollinger", 40, 2, 3)
    /\ SignalFires("bollinger", 40, 2)

----------------------------------------------------------------------------
(* C9: the crossing predicate of the buy and of the sell signal is true     *)
(* exactly when prev < threshold <= curr on the strategy's mode indicator:  *)
(* false on a downward move, false when prev >= threshold, false when prev  *)
(* or curr is missing.                                                      *)
C9_CrossingPredicate ==
    Shifted =>
        \A k \in 1..Len(strategies), j \in 1..Len(df_test) :
            LET st == strategies[k]
                prev == IF j = 1 THEN NaN ELSE IndicatorOf(st.mode, df_test[j - 1])
                curr == IndicatorOf(st.mode, df_test[j])
            IN  /\ take_profit(st, df_test[j]) <=> Crosses(st.mode, st.sell_threshold, j)
                /\ buy_signal(st, df_test[j]) <=>
                      (~st.position /\ Crosses(st.mode, st.buy_threshold, j))
                /\ (prev = NaN \/ curr = NaN) =>
                      (~take_profit(st, df_test[j]) /\ ~buy_signal(st, df_test[j]))
                /\ (prev # NaN /\ curr # NaN /\ curr[1] < prev[1]) =>
                      (~take_profit(st, df_test[j]) /\ ~buy_signal(st, df_test[j]))
                /\ (prev # NaN /\ prev[1] >= st.sell_threshold) =>
                      ~take_profit(st, df_test[j])
                /\ (prev # NaN /\ prev[1] >= st.buy_threshold) =>
                      ~buy_signal(st, df_test[j])

\* the evaluation set holds an upward crossing of 30 from a previous value
\* below it, a previous value equal to the threshold 30, and a downward move
C9_Witness ==
    /\ pc = "loop"
    /\ Len(df_test) = 4
    /\ Crosses("fundamental", 30, 2)
    /\ df_test[2].valuation_percentile = Some(30)
    /\ df_test[3].valuation_percentile = Some(90)
    /\ df_test[4].valuation_percentile = Some(5)
    /\ take_profit(strategies[9], df_test[3])
    /\ ~buy_signal(strategies[9], df_test[3])

----------------------------------------------------------------------------
\* what C10 asks of the step of a day
C10_Step ==
    InLoop =>
        \A k \in 1..Len(strategies) :
            LET st == strategies[k]
                evs == EventsOf(st.name, NewEvents)
                skipped == strategies'[k] = st /\ evs = <<>>
                ownPrevMissing ==
                    i = 1 \/ IndicatorOf(st.mode, df_test[i - 1]) = NaN
                nextOpenMissing ==
                    i = Len(df_test) \/ df_test[i + 1].open = NaN
            IN  skipped <=> (ownPrevMissing \/ nextOpenMissing)

(* C10: for every strategy a day is skipped (no state change, no event, not *)
(* counted as evaluated) if and only if the previous day's value of the     *)
(* strategy's own mode indicator is missing or the next day's open is       *)
(* missing; a Bollinger strategy is evaluated on a day whose previous       *)
(* bollinger_position and next open are present whatever the valuation      *)
(* percentile.                                                              *)
C10_SkipByOwnIndicator == [][C10_Step]_vars

----------------------------------------------------------------------------
\* the day number of a 'YYYY-MM-DD' date, in days since 2016-01-01
RECURSIVE DaysBeforeYear(_)
DaysBeforeYear(y) ==
    IF y <= 2016 THEN 0
    ELSE DaysBeforeYear(y - 1) + (IF IsLeap(y - 1) THEN 366 ELSE 365)

RECURSIVE DaysBeforeMonth(_, _)
DaysBeforeMonth(y, m) ==
    IF m <= 1 THEN 0 ELSE DaysBeforeMonth(y, m - 1) + DaysInMonth(y, m - 1)

DayNumber(ymd) == DaysBeforeYear(ymd[1]) + DaysBeforeMonth(ymd[1], ymd[2]) + ymd[3] - 1

\* replaying events k.. of one strategy: a buy opens a trade on its date, a
\* closing event sets the capital to its cash value and adds the calendar
\* days since the matching buy
RECURSIVE Replay(_, _, _)
Replay(evs, k, acc) ==
    IF k > Len(evs) THEN acc
    ELSE IF evs[k].direction = "buy"
    THEN Replay(evs, k + 1, [acc EXCEPT !.buy_date = evs[k].date])
    ELSE Replay(evs, k + 1,
                [acc EXCEPT !.capital = evs[k].cash,
                            !.holding_days = @ + DayNumber(evs[k].date)
                                               - DayNumber(acc.buy_date)])

ReplayOf(name) ==
    Replay(EventsOf(name, log), 1,
           [capital |-> Rat(100000, 1), holding_days |-> 0, buy_date |-> <<>>])

HasStats == pc = "returned" /\ stat # <<>>

(* C11: replaying only a strategy's own events of the returned log in order *)
(* (capital starts at 100000, each closing event sets it to its cash value  *)
(* and adds the calendar days since the matching buy to the holding total)  *)
(* reproduces the capital, holding_days, total_return and total_rate of     *)
(* that strategy's entry in the returned stats.                             *)
C11_ReplayReproducesStats ==
    HasStats =>
        \A k \in 1..Len(stat) :
            LET replayed == ReplayOf(stat[k].strategy_name)
                gain == RatSub(replayed.capital, Rat(100000, 1))
            IN  /\ stat[k].capital = replayed.capital
                /\ stat[k].holding_days = replayed.holding_days
                /\ stat[k].total_return = gain
                /\ stat[k].total_rate = RatDiv(gain, Rat(100000, 1))

\* returned stats of a strategy that bought and sold at another price
C11_Witness ==
    /\ HasStats
    /\ \E k \in 1..Len(stat) :
          /\ Len(EventsOf(stat[k].strategy_name, log)) = 2
          /\ stat[k].holding_days > 0
          /\ stat[k].capital # Rat(100000, 1)

----------------------------------------------------------------------------
\* the place of a strategy in the configuration list
ConfigIndex(name) == CHOOSE k \in 1..Len(StrategyTable) : StrategyTable[k][3] = name

\* a < b as rationals with positive denominators
Below(a, b) == a.n * b.d < b.n * a.d

----------------------------------------------------------------------------
\* 'YYYY-MM-DD' strings compare as year, month, day
DateLe(x, y) ==
    \/ x[1] < y[1]
    \/ x[1] = y[1] /\ x[2] < y[2]
    \/ x[1] = y[1] /\ x[2] = y[2] /\ x[3] <= y[3]

(* C13: given a date-ordered bar sequence, the trade log is ordered by      *)
(* non-decreasing event date across all strategies, the force_sell events   *)
(* appended after the loop included.                                        *)
C13_LogOrderedByDate ==
    \A a, b \in 1..Len(log) : a < b => DateLe(log[a].date, log[b].date)

\* a returned log with a buy, a sale on a later day and a forced sale on a
\* day later still
C13_Witness ==
    /\ pc = "returned"
    /\ \E a, b, c \in 1..Len(log) :
          /\ a < b /\ b < c
          /\ log[a].direction = "buy"
          /\ log[b].direction = "take_profit_sell"
          /\ log[c].direction = "force_sell"
          /\ log[a].date # log[b].date
          /\ log[b].date # log[c].date

----------------------------------------------------------------------------
\* the window a strategy traversed has duration zero: no day was evaluated,
\* or its first and last evaluated day are the same date
ZeroDuration(strategy) ==
    \/ strategy.date_start = None
    \/ strategy.date_end = None
    \/ strategy.date_start = strategy.date_end

(* C14: when the evaluation window traversed by a strategy has duration     *)
(* zero, computing position_rate does not raise: the strategy's stats entry *)
(* is produced, with strategy_duration_rate reported as 0.                  *)
C14_ZeroDurationDoesNotRaise ==
    (pc \in {"returned", "raised"} /\ strategies # <<>>) =>
        \A k \in 1..Len(strategies) :
            ZeroDuration(strategies[k]) =>
                /\ pc = "returned"
                /\ \E a \in 1..Len(stat) :
                      /\ stat[a].strategy_name = strategies[k].name
                      /\ stat[a].strategy_duration_rate = RatInt(0)

----------------------------------------------------------------------------
(* C15: annual_return is reported as 0 whenever total_holding_days is 0 or  *)
(* 1 + total_rate is not positive (final capital <= 0); the power           *)
(* (1 + total_rate) ^ (365 / total_holding_days) - 1 is applied only when   *)
(* total_holding_days > 0 and 1 + total_rate > 0; the computation never     *)
(* raises.                                                                  *)
C15_AnnualReturnGuarded ==
    /\ pc # "raised"
    /\ pc = "returned" =>
          \A a \in 1..Len(stat) :
              LET onePlusRate == RatDiv(stat[a].capital, Rat(100000, 1))
              IN  IF stat[a].holding_days > 0 /\ stat[a].capital.n > 0
                  THEN stat[a].annual_return =
                           [power |-> TRUE, base |-> onePlusRate,
                            exponent |-> Rat(365, stat[a].holding_days)]
                  ELSE stat[a].annual_return = [power |-> FALSE]

\* stats of a strategy that held for days and ended with no capital left
C15_Witness ==
    /\ pc = "returned"
    /\ Len(stat) = 1
    /\ stat[1].holding_days > 0
    /\ stat[1].capital.n <= 0
    /\ stat[1].annual_return = [power |-> FALSE]

----------------------------------------------------------------------------
(* C16: whenever the frame lacks any of the required columns (valuation     *)
(* percentile, Bollinger position, open price) the call fails with a        *)
(* KeyError and returns no log or stats, for every input frame, those with  *)
(* insufficient history included.                                           *)
C16_MissingColumnsRaiseKeyError ==
    (pc \in {"returned", "raised"} /\ required_columns \ df.columns # {}) =>
        /\ pc = "raised"
        /\ result = "KeyError"
        /\ log = <<>>
        /\ stat = <<>>

----------------------------------------------------------------------------
\* one strategy run on its own over rows j..n of the evaluation set
RECURSIVE AloneFrom(_, _, _)
AloneFrom(run, j, n) ==
    IF j > n THEN run
    ELSE IF SkipDay(df_test[j]) THEN AloneFrom(run, j + 1, n)
    ELSE LET step == StepStrategy(run.strategy, df_test[j])
         IN  AloneFrom([strategy |-> step.strategy,
                        events |-> run.events \o step.events], j + 1, n)

\* the k-th configured strategy run on its own as far as the call has come
Alone(k) ==
    LET looped == AloneFrom([strategy |-> InitStrategy(StrategyTable[k]),
                             events |-> <<>>],
                            1, IF pc = "loop" THEN i - 1 ELSE Len(df_test))
        forced == ForceSellStrategy(looped.strategy, df_test[Len(df_test)])
    IN  IF pc \in {"loop", "force"} THEN looped
        ELSE [strategy |-> forced.strategy, events |-> looped.events \o forced.events]

(* C18: strategies are independent: every strategy starts with capital     *)
(* 100000, and a strategy's state, events and stats are those of the same   *)
(* strategy run alone on the same bars, whatever the other strategies buy,  *)
(* sell or have liquidated.                                                 *)
C18_StrategiesIndependent ==
    strategies # <<>> =>
        \A k \in 1..Len(strategies) :
            \A alone \in {Alone(k)} :
                /\ InitStrategy(StrategyTable[k]).capital = Rat(100000, 1)
                /\ strategies[k] = alone.strategy
                /\ EventsOf(strategies[k].name, log) = alone.events
                /\ pc = "returned" =>
                      \E a \in 1..Len(stat) : stat[a] = strategy_stat(alone.strategy)

\* a returned run in which one strategy sold on a crossing, another was
\* liquidated at the end and a third never traded
C18_Witness ==
    /\ pc = "returned"
    /\ \E a, b, c \in 1..Len(strategies) :
          /\ \E e \in 1..Len(log) :
                log[e].strategy_name = strategies[a].name
                    /\ log[e].direction = "take_profit_sell"
          /\ \E e \in 1..Len(log) :
                log[e].strategy_name = strategies[b].name
                    /\ log[e].direction = "force_sell"
          /\ EventsOf(strategies[c].name, log) = <<>>

----------------------------------------------------------------------------
\* a row of the evaluation set without its shifted columns
RawBar(row) ==
    [ date |-> row.date, valuation_percentile |-> row.valuation_percentile,
      bollinger_position |-> row.bollinger_position,
      open |-> row.open, close |-> row.close ]

\* the evaluation sets that agree with df_test on the bars up to day T and on
\* the open of day T + 1: the indicators and the close of day T + 1 differ,
\* and the set ends there or goes on with any bar
Alternatives(T) ==
    { [j \in 1..T |-> RawBar(df_test[j])]
        \o << [Bar(df_test[T + 1].date, p[1], p[2], df_test[T + 1].open)
                 EXCEPT !.close = c] >>
        \o rest :
      p \in IndicatorPairs,
      c \in {Some(1), df_test[T + 1].close},
      rest \in {<<>>} \cup
               { << [b EXCEPT !.date = df_test[T + 1].date + 1] >> : b \in TailBars } }

\* what C19 asks of the step of day T = i: it is the step the loop would take
\* on any of the alternative evaluation sets
C19_Step ==
    (InLoop /\ i < Len(df_test)) =>
        \A alt \in Alternatives(i) :
            \A row \in {AddShifted(alt)[i]} :
                IF SkipDay(row)
                THEN strategies' = strategies /\ NewEvents = <<>>
                ELSE \E steps \in {StepAll(strategies, row)} :
                        /\ strategies' = [k \in 1..Len(steps) |-> steps[k].strategy]
                        /\ NewEvents = EventsFrom(steps, 1)

(* C19: no lookahead: for two evaluation sets that agree on all bars up to  *)
(* day T and on the open of day T + 1, the buy, stop_loss_sell and          *)
(* take_profit_sell events dated T or earlier and the strategy states after *)
(* day T are identical; a decision of day T uses no indicator later than T  *)
(* and no price later than the open of T + 1.                               *)
C19_NoLookahead == [][C19_Step]_vars

\* day 2 of four has been stepped and brought a buy; the later bars could
\* have been any
C19_Witness ==
    /\ pc = "loop" /\ i = 3
    /\ Len(df_test) = 4
    /\ log # <<>>
    /\ log[1].direction = "buy"
    /\ df_test[3].valuation_percentile = NaN

----------------------------------------------------------------------------
(* C17: in the batch loops over indices (indicator calculation and          *)
(* backtest) an exception raised while processing one index is caught and   *)
(* logged with that index's code, every later index of the list is still    *)
(* processed, and the failed index's stored record is left as it was.       *)
C17_BatchSurvivesFailure ==
    (batch # NoBatch /\ batch.status # "running") =>
        /\ batch.status = "done"
        /\ \A k \in 1..Len(batch.outcomes) :
              IF batch.outcomes[k] = "ok"
              THEN batch.store[k] = "new"
              ELSE /\ batch.store[k] = "old"
                   /\ \E e \in 1..Len(batch.errors) : batch.errors[e] = k

----------------------------------------------------------------------------
\* bar k of the frame has at least one valid valuation field
HasValuation(frame, k) ==
    \E col \in key_columns \cap frame.columns : frame.rows[k].values[col] # NaN

\* the suffix that starts at the first bar with a valid valuation field, the
\* empty sequence when there is none
ValuedSuffix(frame) ==
    IF \E k \in 1..Len(frame.rows) : HasValuation(frame, k)
    THEN SubSeq(frame.rows,
                CHOOSE k \in 1..Len(frame.rows) :
                    HasValuation(frame, k) /\ \A j \in 1..(k - 1) : ~HasValuation(frame, j),
                Len(frame.rows))
    ELSE <<>>

(* C20: filter_consecutive_missing_data applied to a date-ordered frame     *)
(* with a fresh 0..n-1 index returns the suffix that starts at the first    *)
(* bar on which at least one of pe_ttm, pb, dividend_yield is non-missing   *)
(* (that bar and every later bar kept, in order) and the empty sequence     *)
(* when no bar has a valid valuation field.                                 *)
C20_SuffixFromFirstValued ==
    (call # NoCall /\ call.state # "called") =>
        /\ call.state = "returned"
        /\ call.result = ValuedSuffix(call.df)

----------------------------------------------------------------------------
\* the values of a column in the trailing window of at most 500 rows that
\* ends at row k, oldest first, and those of them that are not missing
TrailingValues(frame, col, k) ==
    LET n == IF k < 500 THEN k ELSE 500
    IN  [j \in 1..n |-> ValueAt(frame, col, k - n + j)]

PresentValues(frame, col, k) ==
    SelectSeq(TrailingValues(frame, col, k), LAMBDA v : v # NaN)

\* (1 + number of window values strictly smaller than x) / number of window
\* values
MinRankOf(x, values) ==
    Rat(1 + Len(SelectSeq(values, LAMBDA v : v[1] < x)), Len(values))

\* number of window values <= x / number of window values
FractionAtMost(x, values) ==
    Rat(Len(SelectSeq(values, LAMBDA v : v[1] <= x)), Len(values))

PercentilesReturned ==
    /\ call # NoCall
    /\ call.fn = "calculate_valuation_percentiles"
    /\ call.state = "returned"
    /\ call.i > 0

\* the rank column of a valuation column
RankColumn(col) == IF col = "pe" THEN "pe_percentile" ELSE "pb_percentile"

(* C21: at each position the rolling percentile rank equals (1 + number of  *)
(* non-missing values of the trailing window of at most 500 observations    *)
(* that are strictly smaller than the value at the position) divided by the *)
(* number of non-missing values of that window; it is missing when the      *)
(* value at the position is missing, and missing values elsewhere in the    *)
(* window count neither in the numerator nor in the denominator.            *)
C21_MinRankPercentile ==
    PercentilesReturned =>
        \A col \in {"pe", "pb"} :
            LET x == ValueAt(call.df, col, call.i)
            IN  call.result[RankColumn(col)] =
                    IF x = NaN THEN NaN
                    ELSE Some(MinRankOf(x[1], PresentValues(call.df, col, call.i)))

\* row 502: the window has dropped the first two rows, holds a missing value
\* at row 501 and values equal to the one ranked
C21_Witness ==
    /\ PercentilesReturned
    /\ call.i = 502
    /\ ValueAt(call.df, "pe", 501) = NaN
    /\ ValueAt(call.df, "pe", 502) = Some(1)
    /\ call.result.pe_percentile = Some(Rat(1, 499))

----------------------------------------------------------------------------
\* the value at row k occurs at another row of the window as well
Tied(frame, col, k) ==
    Len(SelectSeq(PresentValues(frame, col, k),
                  LAMBDA v : v = ValueAt(frame, col, k))) > 1

----------------------------------------------------------------------------
(* C23: at every bar the composite valuation_percentile is the unweighted   *)
(* mean of pe_percentile, pb_percentile and the inverted dividend-yield     *)
(* percentile when all three are present, and is missing whenever at least  *)
(* one of the three is missing.                                             *)
C23_CompositeMean ==
    PercentilesReturned =>
        LET r == call.result
        IN  IF r.pe_percentile # NaN /\ r.pb_percentile # NaN /\ r.dyr_yield # NaN
            THEN /\ r.valuation_percentile # NaN
                 /\ RatMul(r.valuation_percentile[1], Rat(3, 1)) =
                        RatAdd(r.pe_percentile[1],
                               RatAdd(r.pb_percentile[1], r.dyr_yield[1]))
            ELSE r.valuation_percentile = NaN

\* a bar with two percentiles present and one missing
C23_Witness ==
    /\ PercentilesReturned
    /\ call.result.pe_percentile # NaN
    /\ call.result.dyr_yield # NaN
    /\ call.result.pb_percentile = NaN
    /\ call.result.valuation_percentile = NaN

----------------------------------------------------------------------------
----------------------------------------------------------------------------
\* the mean of a sequence of rationals, 0 for the empty sequence
Average(values) ==
    IF values = <<>> THEN Rat(0, 1)
    ELSE LET total[k \in 0..Len(values)] ==
                 IF k = 0 THEN Rat(0, 1) ELSE RatAdd(total[k - 1], values[k])
         IN  RatDiv(total[Len(values)], Rat(Len(values), 1))

\* the strategies of a mode held more than 15% of the time, and those of
\* them above their mean rate
Held(stats, mode) ==
    SelectSeq(stats, LAMBDA s : s.mode = mode /\ RatLt(Rat(15, 100), s.position_rate))

HeldAboveMean(stats, mode) ==
    LET mean == Average([k \in 1..Len(Held(stats, mode)) |->
                            Held(stats, mode)[k].strategy_duration_rate])
    IN  SelectSeq(Held(stats, mode), LAMBDA s : RatLt(mean, s.strategy_duration_rate))

AverageOf(stats, field) == Average([k \in 1..Len(stats) |-> stats[k][field]])

ExportReturned ==
    /\ call # NoCall
    /\ call.fn = "export_home_data"
    /\ call.state = "returned"
    /\ Len(call.index_list) = 1

----------------------------------------------------------------------------
RetryCall == call # NoCall /\ call.fn = "retry"

\* the number of calls of func so far
Calls == Len(SelectSeq(call.events, LAMBDA ev : ev = "call"))

(* C25: a function wrapped by retry(max_attempts=n, delay=d) that raises on *)
(* every call is called exactly n times and the wrapper then raises the     *)
(* exception raised by the last call, the same exception and not a          *)
(* different error; a function that succeeds on call k <= n is called       *)
(* exactly k times and its result is returned.                              *)
C25_RaisesLastException ==
    RetryCall =>
        /\ (call.state = "raised" /\ call.last \in Exceptions) =>
               /\ Calls = call.max_attempts
               /\ call.result = call.last
        /\ call.state = "returned" =>
               /\ Calls = call.attempts + 1
               /\ Calls <= call.max_attempts
               /\ call.result = "ok"

----------------------------------------------------------------------------
\* a sleep stands between two calls of func
SleepsBetweenCalls ==
    \A k \in 1..Len(call.events) :
        call.events[k] = "sleep" =>
            /\ k > 1
            /\ call.events[k - 1] = "call"
            /\ IF k < Len(call.events) THEN call.events[k + 1] = "call"
               ELSE call.state = "loop" /\ call.attempts < call.max_attempts

(* C30: the retry wrapper always terminates when the wrapped function       *)
(* terminates: it makes at most max_attempts calls, sleeps for delay only   *)
(* between two consecutive attempts, never after the last failed attempt    *)
(* and never after a success, and makes no further call after the first     *)
(* success.                                                                 *)
C30_Step ==
    /\ Calls <= call.max_attempts
    /\ SleepsBetweenCalls
    /\ call.slept = call.delay * (Len(call.events) - Calls)
    /\ call.state = "returned" => call' = call

C30_Terminates ==
    /\ [][RetryCall => C30_Step]_vars
    /\ [](RetryCall => Calls <= call.max_attempts /\ SleepsBetweenCalls)
    /\ <>(RetryCall /\ call.state \in {"returned", "raised"})

\* every attempt but the last has failed and the wrapper has slept between
\* them
C30_Witness ==
    /\ RetryCall
    /\ call.max_attempts = 3
    /\ call.events = <<"call", "sleep", "call", "sleep", "call">>
    /\ call.state = "returned"

----------------------------------------------------------------------------
IndexFilterReturned ==
    /\ call # NoCall
    /\ call.fn = "filter_indices_by_criteria"
    /\ call.state = "returned"

\* the index was launched at least 365 * min_years days before NOW, and has
\* constituents and tracking funds
Qualifies(index, min_years) ==
    /\ index.age >= 2 * 365 * min_years
    /\ index.constituent_weightings > 0
    /\ index.tracking_fund > 0

(* C26: filter_indices_by_criteria returns, in input order, exactly the     *)
(* indices whose launch date is at least 365*min_years days before now,     *)
(* whose constituent_weightings list is non-empty and whose tracking_fund   *)
(* list is non-empty; an index failing any one of the three conditions is   *)
(* never in the result.                                                     *)
C26_ExactlyQualifying ==
    IndexFilterReturned =>
        LET codes == [k \in 1..Len(call.result) |-> call.result[k].stockCode]
        IN  /\ \A k \in 1..Len(call.cn_index) :
                   Qualifies(call.cn_index[k], call.min_years)
                       <=> \E j \in 1..Len(codes) : codes[j] = k
            /\ \A j \in 1..(Len(codes) - 1) : codes[j] < codes[j + 1]
            /\ \A j \in 1..Len(codes) :
                   /\ call.result[j] = call.cn_index[codes[j]]
                   /\ Qualifies(call.result[j], call.min_years)

\* three indices, the first launched exactly 365 * min_years days ago, the
\* second without tracking funds
C26_Witness ==
    /\ IndexFilterReturned
    /\ Len(call.cn_index) = 3
    /\ call.cn_index[1].age = 2 * 365 * call.min_years
    /\ call.cn_index[2].age > 2 * 365 * call.min_years
    /\ call.cn_index[2].tracking_fund = 0
    /\ Len(call.result) = 2
    /\ call.result[1].stockCode = 1
    /\ call.result[2].stockCode = 3

----------------------------------------------------------------------------
HomeCall == call # NoCall /\ call.fn = "export_home"

\* the holding days of all strategies, and the sum over the strategies of a
\* rational term
HeldDays(stats) ==
    LET total[k \in 0..Len(stats)] ==
            IF k = 0 THEN 0 ELSE total[k - 1] + stats[k].holding_days
    IN  total[Len(stats)]

SumOver(stats, Term(_)) ==
    LET total[k \in 0..Len(stats)] ==
            IF k = 0 THEN Rat(0, 1) ELSE RatAdd(total[k - 1], Term(stats[k]))
    IN  total[Len(stats)]

(* C29: in the home export that computes backtest_avg the weights           *)
(* holding_days/total_holding_days of all strategies sum to 1 and           *)
(* backtest_avg is the weighted sum of annual_return; when the stats list   *)
(* is empty backtest_avg is 0, and when the stats list is non-empty but no  *)
(* strategy ever held a position (total holding days 0) the export still    *)
(* completes with a defined value instead of raising.                       *)
C29_CompletesWithAverage ==
    HomeCall =>
        /\ call.state \in {"loop", "returned"}
        /\ (call.state = "returned" /\ Len(call.index_list) = 1) =>
               LET stats == call.index_list[1]
                   held == HeldDays(stats)
                   avg == call.result[1].backtest_avg
               IN  /\ stats = <<>> => avg = Rat(0, 1)
                   /\ held > 0 =>
                          /\ SumOver(stats, LAMBDA s : Rat(s.holding_days, held))
                                 = Rat(1, 1)
                          /\ avg = SumOver(stats,
                                     LAMBDA s : RatMul(Rat(s.holding_days, held),
                                                       s.annual_return))

----------------------------------------------------------------------------
IndicatorsReturned ==
    /\ call # NoCall
    /\ call.fn = "calculate_technical_indicators"
    /\ call.state = "returned"
    /\ call.i > 0

\* the closes of bars a..b, in order
Closes(frame, a, b) == [j \in 1..(b - a + 1) |-> CloseAt(frame, a + j - 1)]

\* the sum and the arithmetic mean of a sequence of closes; the mean is
\* missing when one of the closes is
RECURSIVE SumOfCloses(_)
SumOfCloses(closes) ==
    IF Len(closes) = 0 THEN 0
    ELSE IF Len(closes) = 1 THEN closes[1][1]
    ELSE LET half == Len(closes) \div 2
         IN  SumOfCloses(SubSeq(closes, 1, half))
                 + SumOfCloses(SubSeq(closes, half + 1, Len(closes)))

MeanOfCloses(closes) ==
    IF \E j \in 1..Len(closes) : closes[j] = NaN THEN NaN
    ELSE Some(Rat(SumOfCloses(closes), Len(closes)))

(* C27: for each window w in {5, 10, 20, 30, 60, 120, 250} the moving       *)
(* average at bar i is undefined for the first w-1 bars of the sequence and *)
(* otherwise equals the arithmetic mean of close over bars i-w+1..i; it     *)
(* never uses a bar later than i.                                           *)
C27_MovingAverage ==
    IndicatorsReturned =>
        \A w \in {5, 10, 20, 30, 60, 120, 250} :
            call.result.ma[w] =
                IF call.i <= w - 1 THEN NaN
                ELSE MeanOfCloses(Closes(call.df, call.i - w + 1, call.i))

\* bar 250 of a frame of 252 bars: the 250-bar average is there for the
\* first time, shorter averages have moved on, and two bars follow
C27_Witness ==
    /\ IndicatorsReturned
    /\ call.i = 250
    /\ FrameLen(call.df) = 252
    /\ call.df.tail = <<Some(20), Some(8)>>
    /\ call.result.ma[250] # NaN
    /\ call.result.ma[5] = Some(Rat(PlainClose(246) + PlainClose(247)
                                    + PlainClose(248) + PlainClose(249)
                                    + PlainClose(250), 5))

----------------------------------------------------------------------------
\* the run has set its strategies up
Running == pc \in {"loop", "force", "stats", "returned"} /\ strategies # <<>>

(* C31: for every strategy the events of the trade log alternate strictly   *)
(* between a buy and a closing event (stop_loss_sell, take_profit_sell or   *)
(* force_sell), starting with a buy; the strategy holds a position exactly  *)
(* while its last event is a buy, so when backtest_single_index returns     *)
(* every strategy is FLAT and has as many buys as closing events; a         *)
(* force_sell occurs at most once per strategy and only as its last event.  *)
C31_EventsAlternate ==
    Running =>
        \A k \in 1..Len(strategies) :
            LET evs == EventsOf(strategies[k].name, log)
            IN  /\ \A j \in 1..Len(evs) :
                       /\ (j % 2 = 1) => evs[j].direction = "buy"
                       /\ (j % 2 = 0) => evs[j].direction \in SellDirections
                       /\ evs[j].direction = "force_sell" => j = Len(evs)
                /\ strategies[k].position <=> (Len(evs) % 2 = 1)
                /\ pc \in {"stats", "returned"} =>
                       /\ ~strategies[k].position
                       /\ Len(SelectSeq(evs, LAMBDA e : e.direction = "buy")) =
                              Len(SelectSeq(evs, LAMBDA e : e.direction \in SellDirections))

\* a run that returned with one strategy closed by a sale of the loop and
\* another by the forced sale
C31_Witness ==
    /\ pc = "returned"
    /\ \E a, b \in 1..Len(strategies) :
          LET ea == EventsOf(strategies[a].name, log)
              eb == EventsOf(strategies[b].name, log)
          IN  /\ Len(ea) = 2 /\ ea[1].direction = "buy"
              /\ ea[2].direction \in {"stop_loss_sell", "take_profit_sell"}
              /\ Len(eb) = 2 /\ eb[1].direction = "buy"
              /\ eb[2].direction = "force_sell"

----------------------------------------------------------------------------
(* C32: for every strategy of the returned stats the total holding days do  *)
(* not exceed the duration of the evaluation window                         *)
(* (holding_days <= strategy_duration), so position_rate lies between 0 and *)
(* 1 inclusive, strategies closed by the forced liquidation included.       *)
C32_HoldingWithinDuration ==
    (pc = "returned" /\ result = Returned) =>
        \A k \in 1..Len(stat) :
            /\ stat[k].holding_days <= stat[k].strategy_duration
            /\ RatLe(Rat(0, 1), stat[k].position_rate)
            /\ RatLe(stat[k].position_rate, Rat(1, 1))

----------------------------------------------------------------------------
\* what C33 asks of every state of the run
C33_State ==
    Running =>
        \A k \in 1..Len(strategies) :
            LET st == strategies[k]
                evs == EventsOf(st.name, log)
            IN  IF ~st.position
                THEN /\ st.shares = Rat(0, 1)
                     /\ st.buy_price = 0
                     /\ st.position_date = None
                ELSE /\ evs # <<>>
                     /\ evs[Len(evs)].direction = "buy"
                     /\ st.position_date # None
                     /\ evs[Len(evs)].date = strftime(st.position_date[1])
                     /\ evs[Len(evs)].price = st.buy_price
                     /\ evs[Len(evs)].amount = st.capital
                     /\ st.buy_price > 0
                     /\ st.shares = Rat(st.capital.n, st.capital.d * st.buy_price)

\* and of every step
C33_Step ==
    (Running /\ Len(strategies') = Len(strategies)) =>
        \A k \in 1..Len(strategies) :
            strategies'[k].total_holding_days >= strategies[k].total_holding_days

(* C33: at every point of the run each strategy satisfies: when FLAT,       *)
(* shares = 0, buy_price = 0 and position_date is unset; when LONG,         *)
(* position_date and buy_price are those of the last buy,                   *)
(* shares = capital / buy_price and capital is still the amount recorded in *)
(* that buy event; total_holding_days never decreases.                      *)
C33_StrategyInvariant == [](C33_State) /\ [][C33_Step]_vars

\* during the loop one strategy holds a position and another has sold one
C33_Witness ==
    /\ pc = "loop"
    /\ \E a, b \in 1..Len(strategies) :
          /\ strategies[a].position
          /\ strategies[a].shares # Rat(0, 1)
          /\ ~strategies[b].position
          /\ strategies[b].total_holding_days > 0
          /\ strategies[b].capital # Rat(InitialCapital, 1)

----------------------------------------------------------------------------
(* C34: trimming is idempotent: filter_consecutive_missing_data applied to  *)
(* its own output returns the same bar sequence, no further bar is dropped, *)
(* for every input, those from which the first application dropped leading  *)
(* bars included.                                                           *)
C34_TrimmingIdempotent ==
    (call # NoCall /\ call.state = "returned" /\ call.again # None) =>
        /\ call.again[1].state = "returned"
        /\ call.again[1].result = call.result

----------------------------------------------------------------------------
\* a row has at least one of the valuation fields of its frame
Valued(row) ==
    \E c \in DOMAIN row.values : c # "close" /\ row.values[c] # NaN

(* C35: process_index_data removes the leading bars on which P/E, P/B and   *)
(* dividend yield are all missing before it computes the indicators: the    *)
(* first bar of the frame it stores has at least one valuation field        *)
(* whenever the input has a bar with a valid valuation field.               *)
C35_StoredFrameStartsValued ==
    (call # NoCall /\ call.fn = "process_index_data" /\ call.state = "returned"
        /\ \E k \in 1..Len(call.df.rows) : Valued(call.df.rows[k])) =>
        /\ call.result # <<>>
        /\ Valued(call.result[1])

----------------------------------------------------------------------------
RangesCall == call # NoCall /\ call.fn = "get_dates_ranges"

(* C36: for every launch date <= end date the ranges returned by            *)
(* get_dates_ranges are consecutive and do not overlap (each starts the day *)
(* after the previous one ends), each spans at most 365*years days, the     *)
(* first starts at the launch date, and together they cover every calendar  *)
(* day from the launch date through the end date; launch > end raises       *)
(* ValueError.                                                              *)
C36_RangesCoverLaunchToEnd ==
    RangesCall =>
        /\ call.state = "ValueError" <=>
               (call.state # "called" /\ call.launch > call.end_datetime)
        /\ call.state = "returned" =>
               LET r == call.date_ranges
               IN  /\ r # <<>>
                   /\ r[1][1] = call.launch \div 2
                   /\ \A k \in 1..Len(r) :
                          /\ r[k][1] <= r[k][2]
                          /\ r[k][2] - r[k][1] <= 365 * call.years
                   /\ \A k \in 1..(Len(r) - 1) : r[k + 1][1] = r[k][2] + 1
                   /\ \A d \in (call.launch \div 2)..(call.end_datetime \div 2) :
                          \E k \in 1..Len(r) : r[k][1] <= d /\ d <= r[k][2]

----------------------------------------------------------------------------
\* the weighting the constituent API gave company c in index x
ApiWeighting(x, c) ==
    LET p == CHOOSE q \in 1..Len(call.api[x]) : call.api[x][q][1] = c
    IN  call.api[x][p][2]

(* C37: when update_index_info fetches several indices in the thread pool,  *)
(* the constituent list stored for each index carries, for every company,   *)
(* the weighting the company has in that index, and is sorted by that       *)
(* weighting in descending order, also when a company is a constituent of   *)
(* several indices processed in any interleaving.                           *)
C37_ListsCarryOwnWeighting ==
    (FetchCall /\ call.state = "completed") =>
        \A r \in 1..Len(Get(call.file)) :
            LET rec  == Get(call.file)[r]
                list == rec.constituent_weightings
            IN  /\ \A p \in 1..Len(list) :
                       list[p].weighting = ApiWeighting(rec.stockCode, list[p].stockCode)
                /\ \A p \in 1..(Len(list) - 1) :
                       list[p].weighting >= list[p + 1].weighting


\* the number of records the written index file holds for index x
RecordsOf(x) ==
    Cardinality({ p \in 1..Len(Get(call.file)) : Get(call.file)[p].stockCode = x })

(* C38: after update_index_info completes, the index file holds exactly one *)
(* record for each index whose fetch succeeded and none for an index whose  *)
(* fetch raised; a failed fetch does not keep the records of the other      *)
(* indices from being written, and every index of the input is either       *)
(* written or logged as failed.                                             *)
C38_FileHoldsSucceeded ==
    (FetchCall /\ call.state = "completed") =>
        \A x \in call.cn_index :
            \/ /\ call.thread[x].pc = "done"
               /\ RecordsOf(x) = 1
               /\ x \notin call.logged
            \/ /\ call.thread[x].pc = "raised"
               /\ RecordsOf(x) = 0
               /\ x \in call.logged

C38_Witness ==
    /\ FetchCall
    /\ call.state = "completed"
    /\ \E x, y \in call.cn_index :
          /\ call.thread[x].pc = "raised"
          /\ call.thread[y].pc = "done"
          /\ RecordsOf(y) = 1

----------------------------------------------------------------------------
DailyCall == call # NoCall /\ call.fn = "daily.main"

\* the calculation or the backtest of some index has failed and was caught
DailyFailureCaught ==
    /\ DailyCall
    /\ \E e \in call.caught : e[1] \in {"calculate_index", "backtest_index"}

\* main has returned and home.json holds an entry for every index
DailyHomeComplete ==
    /\ DailyCall
    /\ call.state = "returned"
    /\ \A x \in 1..call.n :
          \E p \in 1..Len(Get(call.home)) : Get(call.home)[p].index = x

(* C39: in the daily pipeline (fetch_data, calculate_index, backtest_index, *)
(* export_to_js, export_home in that order), if the calculation or the      *)
(* backtest of an index fails and is caught, the pipeline still reaches its *)
(* end and writes home.json with an entry for every index of the list.      *)
C39_PipelineSurvivesFailure == DailyFailureCaught ~> DailyHomeComplete

====
